---- MODULE Spec2Model ----
(***************************************************************************)
(* Abstract simulator of the xDEVS engine: Simulator for atomic and        *)
(* coupled models (src/src/simulation.rs) driven by RootCoordinator.       *)
(* Times are integers; f64::INFINITY is the number INFINITY, larger than   *)
(* every finite time of the model.                                         *)
(***************************************************************************)
EXTENDS Integers, Sequences, FiniteSets, TLC

VARIABLES
    mode,       \* which driver runs: "vt" = simulate, "rt" = simulate_rt
    pc,         \* position of the driver inside simulate / simulate_rt
    t_stop,     \* argument of simulate / simulate_rt
    t,          \* driver local: time of the current iteration
    t_next_loc, \* driver local: t_next (simulate) / t_next_internal (simulate_rt)
    t_last,     \* Component::t_last of every node
    t_next,     \* Component::t_next of every node
    state,      \* author-supplied state of every atomic model
    bag,        \* contents of every port
    log,        \* calls made during the current iteration, in call order
    par,        \* the enabled features par_start, par_stop, par_collection,
                \* par_transition, par_couplings
    behaviour,  \* the transition functions of the atomics, where they are
                \* fixed: delta_conf left at its default, delta_int and
                \* delta_ext as functions of the state
    hasher,     \* the order in which the HashMaps of couplings are iterated
    waiter,     \* the variables captured by the closure rt::wait_event returns,
                \* the wall clock, and the last call of the closure
    builder,    \* the coupling maps and vectors of a Coupled under
                \* construction, and the last add_eic/add_ic/add_eoc call
    par_eics,   \* Coupled::par_eics of every coupled model
    par_xxcs    \* Coupled::par_xxcs of every coupled model

vars == <<mode, pc, t_stop, t, t_next_loc, t_last, t_next, state, bag, log,
          par, behaviour, hasher, waiter, builder, par_eics, par_xxcs>>

\* what no driver changes
config == <<par, behaviour, hasher, waiter, builder>>

\* what no call of a driver but start changes
fixed == <<config, par_eics, par_xxcs>>

----------------------------------------------------------------------------
(* Bounds *)

MaxTime == 2        \* no event is scheduled after this time
MaxSigma == 1       \* largest finite time advance of an atomic
ParStop == 1        \* stop time of the runs with parallel iteration
MaxWall == 4        \* last tick of the wall clock
MaxJitter == 1      \* largest max_jitter, in ticks
MaxEvents == 3      \* number of receptions of the input queue
MaxCouplings == 3   \* number of couplings added to the coupled model built
MaxDecls == 3       \* number of ports and components declared on a coupled
MaxSlack == 2       \* stop times tried after the observation time
MaxWidth == 3       \* largest width of the DEVStone models
MaxDepth == 3       \* largest depth of the DEVStone models
MaxBag == 3         \* largest number of values in the bag of a port
MaxBatch == 2       \* largest number of values handed to add_values
MaxRuns == 2        \* largest number of calls of simulate / simulate_rt on a root

(* f64::INFINITY *)
INFINITY == 1000

SigmaVals == (0..MaxSigma) \cup {INFINITY}
StopVals == (0..MaxTime) \cup {INFINITY}

\* f64 addition on the modelled times
Add(a, b) == IF a = INFINITY \/ b = INFINITY THEN INFINITY ELSE a + b

\* f64::total_cmp minimum of two times
Min(a, b) == IF a <= b THEN a ELSE b

----------------------------------------------------------------------------
(* The model under simulation, built through Coupled::add_component,       *)
(* add_in_port, add_out_port, add_eic, add_ic and add_eoc.                 *)

Atomics == {"g", "p"}
Coupleds == {"top", "c", "e"}
Nodes == Atomics \cup Coupleds
Root == "top"

In(n) == <<n, "in">>
Out(n) == <<n, "out">>
Ports == Nodes \X {"in", "out"}

\* Coupled::components, in insertion order
components(c) ==
    CASE c = "top" -> <<"g", "c">>
      [] c = "c"   -> <<"p", "e">>
      [] OTHER     -> <<>>

\* Component::in_ports / out_ports
in_ports(n) == IF n = "e" THEN <<>> ELSE <<In(n)>>
out_ports(n) == IF n = "e" THEN <<>> ELSE <<Out(n)>>

\* Coupled::eics, ics, eocs: serialized couplings, each (port_to, port_from)
eics(c) ==
    CASE c = "top" -> << <<In("g"), In("top")>>, <<In("c"), In("top")>> >>
      [] c = "c"   -> << <<In("p"), In("c")>> >>
      [] OTHER     -> <<>>

ics(c) ==
    CASE c = "top" -> << <<In("c"), Out("g")>>, <<In("g"), Out("c")>> >>
      [] OTHER     -> <<>>

\* eocs in which coupled c also couples the output of p to the output of g,
\* a port outside of c
eocs_crossing(c) ==
    CASE c = "top" -> << <<Out("top"), Out("c")>>, <<Out("top"), Out("g")>> >>
      [] c = "c"   -> << <<Out("c"), Out("p")>>, <<Out("g"), Out("p")>> >>
      [] OTHER     -> <<>>

eocs(c) ==
    CASE c = "top" -> << <<Out("top"), Out("c")>>, <<Out("top"), Out("g")>> >>
      [] c = "c"   -> << <<Out("c"), Out("p")>> >>
      [] OTHER     -> <<>>

\* the ports that key the maps of couplings
PortList == <<In("top"), Out("top"), In("g"), Out("g"), In("c"), Out("c"),
              In("p"), Out("p")>>

\* iteration orders of a HashMap keyed by ports (std RandomState: any order,
\* the same at every iteration of an unmodified map): the ports in the order
\* in which the map yields the entries they key
HashOrders ==
    {PortList, [i \in 1..Len(PortList) |-> PortList[Len(PortList) + 1 - i]]}

\* build_par pushing one vector per coupling instead of one per destination
build_par_per_coupling(kind, coups, h) ==
    [g \in 1..Len(coups) |-> <<kind, <<coups[g]>> >>]

\* for coups in map.values() { for &source in coups.values() {
\* x.push(vec[source].clone()) } par.push(x) }: one vector per destination
\* port, holding the couplings of that destination
build_par(kind, coups, h) ==
    LET has(pt, k) == \E i \in 1..Len(coups) : coups[i][k] = pt
        dsts == SelectSeq(h, LAMBDA pt : has(pt, 1))
        group(dst) ==
            LET srcs == SelectSeq(h, LAMBDA pt :
                            \E i \in 1..Len(coups) : coups[i] = <<dst, pt>>)
            IN [k \in 1..Len(srcs) |-> <<dst, srcs[k]>>]
    IN [g \in 1..Len(dsts) |-> <<kind, group(dsts[g])>>]

\* Coupled::build_par_eics, build_par_ics, build_par_eocs
build_par_eics(c, h) == build_par("eic", eics(c), h)
build_par_ics(c, h) == build_par("ic", ics(c), h)
build_par_eocs(c, h) == build_par("eoc", eocs(c), h)

\* author-supplied state of an atomic: sigma is what ta() returns, out tells
\* whether lambda adds a message to the output port
AtomicStates == [sigma : SigmaVals, out : BOOLEAN]

\* Atomic::ta
ta(s, a) == s.state[a].sigma

----------------------------------------------------------------------------
(* Construction of a coupled model: Coupled::add_eic, add_ic, add_eoc on a *)
(* coupled "top" that holds the components "a" and "a-b", after the       *)
(* declaration of ports and components with add_in_port, add_out_port and  *)
(* add_component.                                                          *)

PortTypes == {"i32", "i64"}

\* Component::new
NewComponent(name) ==
    [name |-> name, in_map |-> {}, out_map |-> {},
     in_ports |-> <<>>, out_ports |-> <<>>, last |-> "new"]

\* Component::add_in_port::<T> without the test of the name
Component_add_in_port_unchecked(c, name, type) ==
    [c EXCEPT !.in_map = @ \cup {<<name, Len(c.in_ports)>>},
              !.in_ports = Append(@, <<c.name, "in", name, type>>),
              !.last = "ok"]

\* Component::add_in_port::<T>: a port is <<owner, direction, name, T>>
Component_add_in_port(c, name, type) ==
    IF \E e \in c.in_map : e[1] = name
    THEN [c EXCEPT !.last = "component already contains input port"]
    ELSE [c EXCEPT !.in_map = @ \cup {<<name, Len(c.in_ports)>>},
                   !.in_ports = Append(@, <<c.name, "in", name, type>>),
                   !.last = "ok"]

\* Component::add_out_port::<T>
Component_add_out_port(c, name, type) ==
    IF \E e \in c.out_map : e[1] = name
    THEN [c EXCEPT !.last = "component already contains output port"]
    ELSE [c EXCEPT !.out_map = @ \cup {<<name, Len(c.out_ports)>>},
                   !.out_ports = Append(@, <<c.name, "out", name, type>>),
                   !.last = "ok"]

\* Component::get_in_port: Some(port) is <<port>>, None is <<>>
Component_get_in_port(c, port_name) ==
    LET found == {e \in c.in_map : e[1] = port_name /\ e[2] < Len(c.in_ports)}
    IN IF found = {} THEN <<>>
       ELSE <<c.in_ports[(CHOOSE e \in found : TRUE)[2] + 1]>>

\* Component::get_out_port
Component_get_out_port(c, port_name) ==
    LET found == {e \in c.out_map : e[1] = port_name /\ e[2] < Len(c.out_ports)}
    IN IF found = {} THEN <<>>
       ELSE <<c.out_ports[(CHOOSE e \in found : TRUE)[2] + 1]>>

\* Port::is_compatible: the ports carry the same type of message
is_compatible(p, q) == p[4] = q[4]

CouplingKinds == {"eic", "ic", "eoc"}

\* Coupled::new: empty maps (entries <<destination key, source key, index>>)
\* and empty vectors of couplings (port_to, port_from)
Coupled_new(name) ==
    [component |-> NewComponent(name),
     comps_map |-> {}, components |-> <<>>,
     maps |-> [k \in CouplingKinds |-> {}],
     vecs |-> [k \in CouplingKinds |-> <<>>],
     call |-> <<>>, last |-> "new"]

NewCoupled == Coupled_new("top")

\* Simulator::get_component: the Component of an atomic or coupled model
component_of(x) == IF "component" \in DOMAIN x THEN x.component ELSE x

\* Coupled::add_in_port::<T>
add_in_port(b, name, type) ==
    LET c == Component_add_in_port(b.component, name, type)
    IN [b EXCEPT !.component = c, !.last = c.last]

\* Coupled::add_out_port::<T>
add_out_port(b, name, type) ==
    LET c == Component_add_out_port(b.component, name, type)
    IN [b EXCEPT !.component = c, !.last = c.last]

\* Coupled::add_component
add_component(b, component) ==
    LET component_name == component_of(component).name
    IN IF \E e \in b.comps_map : e[1] = component_name
       THEN [b EXCEPT !.last = "coupled model already contains component"]
       ELSE [b EXCEPT !.comps_map = @ \cup {<<component_name, Len(b.components)>>},
                      !.components = Append(@, component),
                      !.last = "ok"]

\* get_component that falls back on the first component
get_component_first(b, name) ==
    LET found == {e \in b.comps_map : e[1] = name /\ e[2] < Len(b.components)}
    IN IF found = {} THEN SubSeq(b.components, 1, 1)
       ELSE <<component_of(b.components[(CHOOSE e \in found : TRUE)[2] + 1])>>

\* Coupled::get_component: Some(component) is <<component>>, None is <<>>
get_component(b, name) ==
    LET found == {e \in b.comps_map : e[1] = name /\ e[2] < Len(b.components)}
    IN IF found = {} THEN <<>>
       ELSE <<component_of(b.components[(CHOOSE e \in found : TRUE)[2] + 1])>>

\* Coupled::n_eics, n_ics, n_eocs
n_couplings(b, kind) == Cardinality(b.maps[kind])

\* insert_coupling without the test of the source key
insert_coupling_unchecked(b, kind, source_key, destination_key, p_to, p_from) ==
    [b EXCEPT !.maps[kind] = @ \cup {<<destination_key, source_key,
                                         Len(b.vecs[kind])>>},
              !.vecs[kind] = Append(@, <<p_to, p_from>>),
              !.last = "ok"]

\* let coups = self.map.entry(destination_key).or_default();
\* if coups.contains_key(&source_key) { panic!(..) }
\* coups.insert(source_key, self.vec.len()); self.vec.push((p_to, p_from));
insert_coupling(b, kind, source_key, destination_key, p_to, p_from) ==
    IF \E e \in b.maps[kind] : e[1] = destination_key /\ e[2] = source_key
    THEN [b EXCEPT !.last = "coupling already exists"]
    ELSE [b EXCEPT !.maps[kind] = @ \cup {<<destination_key, source_key,
                                            Len(b.vecs[kind])>>},
                   !.vecs[kind] = Append(@, <<p_to, p_from>>),
                   !.last = "ok"]

\* add_eic without the test of the types
add_eic_untyped(b, port_from, component_to, port_to) ==
    LET p_from == Component_get_in_port(b.component, port_from)
        comp_to == get_component(b, component_to)
        p_to == IF comp_to = <<>> THEN <<>>
                ELSE Component_get_in_port(comp_to[1], port_to)
    IN IF p_from = <<>>
       THEN [b EXCEPT !.last = "port_from does not exist"]
       ELSE IF comp_to = <<>>
       THEN [b EXCEPT !.last = "component_to does not exist"]
       ELSE IF p_to = <<>>
       THEN [b EXCEPT !.last = "port_to does not exist"]
       ELSE insert_coupling(b, "eic", port_from,
                            component_to \o "-" \o port_to, p_to[1], p_from[1])

\* Coupled::add_eic
add_eic(b, port_from, component_to, port_to) ==
    LET p_from == Component_get_in_port(b.component, port_from)
        comp_to == get_component(b, component_to)
        p_to == IF comp_to = <<>> THEN <<>>
                ELSE Component_get_in_port(comp_to[1], port_to)
    IN IF p_from = <<>>
       THEN [b EXCEPT !.last = "port_from does not exist"]
       ELSE IF comp_to = <<>>
       THEN [b EXCEPT !.last = "component_to does not exist"]
       ELSE IF p_to = <<>>
       THEN [b EXCEPT !.last = "port_to does not exist"]
       ELSE IF ~is_compatible(p_from[1], p_to[1])
       THEN [b EXCEPT !.last = "ports are not compatible"]
       ELSE insert_coupling(b, "eic", port_from,
                            component_to \o "-" \o port_to, p_to[1], p_from[1])

\* Coupled::add_ic
add_ic(b, component_from, port_from, component_to, port_to) ==
    LET comp_from == get_component(b, component_from)
        p_from == IF comp_from = <<>> THEN <<>>
                  ELSE Component_get_out_port(comp_from[1], port_from)
        comp_to == get_component(b, component_to)
        p_to == IF comp_to = <<>> THEN <<>>
                ELSE Component_get_in_port(comp_to[1], port_to)
    IN IF comp_from = <<>>
       THEN [b EXCEPT !.last = "component_from does not exist"]
       ELSE IF p_from = <<>>
       THEN [b EXCEPT !.last = "port_from does not exist"]
       ELSE IF comp_to = <<>>
       THEN [b EXCEPT !.last = "component_to does not exist"]
       ELSE IF p_to = <<>>
       THEN [b EXCEPT !.last = "port_to does not exist"]
       ELSE IF ~is_compatible(p_from[1], p_to[1])
       THEN [b EXCEPT !.last = "ports are not compatible"]
       ELSE insert_coupling(b, "ic", component_from \o "-" \o port_from,
                            component_to \o "-" \o port_to, p_to[1], p_from[1])

\* add_eoc that looks port_to up among the inputs of the coupled
add_eoc_to_input(b, component_from, port_from, port_to) ==
    LET comp_from == get_component(b, component_from)
        p_from == IF comp_from = <<>> THEN <<>>
                  ELSE Component_get_out_port(comp_from[1], port_from)
        p_to == Component_get_in_port(b.component, port_to)
    IN IF comp_from = <<>>
       THEN [b EXCEPT !.last = "component_from does not exist"]
       ELSE IF p_from = <<>>
       THEN [b EXCEPT !.last = "port_from does not exist"]
       ELSE IF p_to = <<>>
       THEN [b EXCEPT !.last = "port_to does not exist"]
       ELSE IF ~is_compatible(p_from[1], p_to[1])
       THEN [b EXCEPT !.last = "ports are not compatible"]
       ELSE insert_coupling(b, "eoc", component_from \o "-" \o port_from,
                            port_to, p_to[1], p_from[1])

\* Coupled::add_eoc
add_eoc(b, component_from, port_from, port_to) ==
    LET comp_from == get_component(b, component_from)
        p_from == IF comp_from = <<>> THEN <<>>
                  ELSE Component_get_out_port(comp_from[1], port_from)
        p_to == Component_get_out_port(b.component, port_to)
    IN IF comp_from = <<>>
       THEN [b EXCEPT !.last = "component_from does not exist"]
       ELSE IF p_from = <<>>
       THEN [b EXCEPT !.last = "port_from does not exist"]
       ELSE IF p_to = <<>>
       THEN [b EXCEPT !.last = "port_to does not exist"]
       ELSE IF ~is_compatible(p_from[1], p_to[1])
       THEN [b EXCEPT !.last = "ports are not compatible"]
       ELSE insert_coupling(b, "eoc", component_from \o "-" \o port_from,
                            port_to, p_to[1], p_from[1])

\* the subcomponents "a" (inputs "c" and "b-c", output "c") and "a-b"
\* (input "c", output "c" of another type), as their constructors build them
CompA ==
    Component_add_out_port(
        Component_add_in_port(
            Component_add_in_port(NewComponent("a"), "c", "i32"),
            "b-c", "i32"),
        "c", "i32")

CompAB ==
    Component_add_out_port(
        Component_add_in_port(NewComponent("a-b"), "c", "i32"), "c", "i64")

\* the coupled "top" with its ports and its subcomponents, before any coupling
Declared ==
    add_component(
        add_component(
            add_out_port(
                add_in_port(add_in_port(NewCoupled, "i", "i32"), "j", "i64"),
                "o", "i32"),
            CompA),
        CompAB)

\* the names a call may give to components and ports
CompNames == {"a", "a-b", "zz"}
PortIds == {"i", "j", "o", "c", "b-c"}

----------------------------------------------------------------------------
(* The models of the library: GPT, EFP (src/xdevs/src/gpt.rs) and DEVStone  *)
(* LI, HI (src/src/devstone), built by their constructors through the API   *)
(* above.  An atomic is its Component with the name of its type (atomic)    *)
(* and the initial values of the other fields of its struct (state).        *)

\* a constructor goes on only if no call has panicked
Then(b, F(_)) == IF b.last \in {"new", "ok"} THEN F(b) ELSE b

\* Generator::new starting with a whole period of waiting
Generator_new_waiting(name, period) ==
    Component_add_out_port(
        Component_add_in_port(NewComponent(name), "input_stop", "bool"),
        "output_req", "usize")
    @@ [atomic |-> "Generator",
        state |-> [sigma |-> period, period |-> period, count |-> 0]]

\* Generator::new
Generator_new(name, period) ==
    Component_add_out_port(
        Component_add_in_port(NewComponent(name), "input_stop", "bool"),
        "output_req", "usize")
    @@ [atomic |-> "Generator",
        state |-> [sigma |-> 0, period |-> period, count |-> 0]]

\* Processor::new: job is None (<<>>) or Some(j) (<<j>>)
Processor_new(name, time) ==
    Component_add_out_port(
        Component_add_in_port(NewComponent(name), "input_req", "usize"),
        "output_res", "Job")
    @@ [atomic |-> "Processor",
        state |-> [sigma |-> INFINITY, time |-> time, job |-> <<>>]]

\* Transducer::new
Transducer_new(name, time) ==
    Component_add_out_port(
        Component_add_in_port(
            Component_add_in_port(NewComponent(name), "input_req", "usize"),
            "input_res", "Job"),
        "output_stop", "bool")
    @@ [atomic |-> "Transducer", state |-> [sigma |-> time]]

\* Gpt::new
Gpt_new(name, req_period, proc_time, obs_time) ==
    LET c1 == add_component(Coupled_new(name),
                            Generator_new("generator", req_period))
        c2 == Then(c1, LAMBDA c :
                  add_component(c, Processor_new("processor", proc_time)))
        c3 == Then(c2, LAMBDA c :
                  add_component(c, Transducer_new("transducer", obs_time)))
        c4 == Then(c3, LAMBDA c :
                  add_ic(c, "generator", "output_req", "processor", "input_req"))
        c5 == Then(c4, LAMBDA c :
                  add_ic(c, "generator", "output_req", "transducer", "input_req"))
        c6 == Then(c5, LAMBDA c :
                  add_ic(c, "processor", "output_res", "transducer", "input_res"))
    IN Then(c6, LAMBDA c :
           add_ic(c, "transducer", "output_stop", "generator", "input_stop"))

\* ExperimentalFrame::new without the coupling of the requests to the output
\* of the frame
ExperimentalFrame_new_closed(name, req_period, obs_time) ==
    LET c1 == add_in_port(Coupled_new(name), "input_res", "Job")
        c2 == Then(c1, LAMBDA c : add_out_port(c, "output_req", "usize"))
        c3 == Then(c2, LAMBDA c :
                  add_component(c, Generator_new("generator", req_period)))
        c4 == Then(c3, LAMBDA c :
                  add_component(c, Transducer_new("transducer", obs_time)))
        c5 == Then(c4, LAMBDA c :
                  add_eic(c, "input_res", "transducer", "input_res"))
        c6 == Then(c5, LAMBDA c :
                  add_ic(c, "generator", "output_req", "transducer", "input_req"))
    IN Then(c6, LAMBDA c :
           add_ic(c, "transducer", "output_stop", "generator", "input_stop"))

\* ExperimentalFrame::new
ExperimentalFrame_new(name, req_period, obs_time) ==
    LET c1 == add_in_port(Coupled_new(name), "input_res", "Job")
        c2 == Then(c1, LAMBDA c : add_out_port(c, "output_req", "usize"))
        c3 == Then(c2, LAMBDA c :
                  add_component(c, Generator_new("generator", req_period)))
        c4 == Then(c3, LAMBDA c :
                  add_component(c, Transducer_new("transducer", obs_time)))
        c5 == Then(c4, LAMBDA c :
                  add_eic(c, "input_res", "transducer", "input_res"))
        c6 == Then(c5, LAMBDA c :
                  add_ic(c, "generator", "output_req", "transducer", "input_req"))
        c7 == Then(c6, LAMBDA c :
                  add_ic(c, "transducer", "output_stop", "generator", "input_stop"))
    IN Then(c7, LAMBDA c : add_eoc(c, "generator", "output_req", "output_req"))

\* Efp::new
Efp_new(name, req_period, proc_time, obs_time) ==
    LET c1 == add_component(Coupled_new(name),
                            ExperimentalFrame_new("ef", req_period, obs_time))
        c2 == Then(c1, LAMBDA c :
                  add_component(c, Processor_new("processor", proc_time)))
        c3 == Then(c2, LAMBDA c :
                  add_ic(c, "ef", "output_req", "processor", "input_req"))
    IN Then(c3, LAMBDA c :
           add_ic(c, "processor", "output_res", "ef", "input_res"))

\* DEVStoneAtomic::new
DEVStoneAtomic_new(name) ==
    Component_add_out_port(
        Component_add_in_port(NewComponent(name), "input", "usize"),
        "output", "usize")
    @@ [atomic |-> "DEVStoneAtomic",
        state |-> [sigma |-> INFINITY, n_internals |-> 0, n_externals |-> 0,
                   n_events |-> 0]]

\* DEVStoneSeeder::new
DEVStoneSeeder_new(name) ==
    Component_add_out_port(NewComponent(name), "output", "usize")
    @@ [atomic |-> "DEVStoneSeeder", state |-> [sigma |-> 0]]

RECURSIVE LI_atomics(_, _, _), LI_new(_, _), HI_atomics(_, _, _), HI_new(_, _)
RECURSIVE LI_atomics_inclusive(_, _, _), HI_atomics_reversed(_, _, _)

\* LI_atomics with the loop running for i in 1..=width
LI_atomics_inclusive(coupled, i, width) ==
    IF i > width THEN coupled
    ELSE LET atomic_name == "atomic_" \o ToString(i)
             c1 == Then(coupled, LAMBDA c :
                       add_component(c, DEVStoneAtomic_new(atomic_name)))
             c2 == Then(c1, LAMBDA c : add_eic(c, "input", atomic_name, "input"))
         IN LI_atomics_inclusive(c2, i + 1, width)

\* LI::new: for i in 1..width { add_component(atomic_i); add_eic(..) }
LI_atomics(coupled, i, width) ==
    IF i >= width THEN coupled
    ELSE LET atomic_name == "atomic_" \o ToString(i)
             c1 == Then(coupled, LAMBDA c :
                       add_component(c, DEVStoneAtomic_new(atomic_name)))
             c2 == Then(c1, LAMBDA c : add_eic(c, "input", atomic_name, "input"))
         IN LI_atomics(c2, i + 1, width)

\* the coupled with its two ports that LI::new and HI::new start from
DEVStone_coupled(depth) ==
    Then(add_in_port(Coupled_new("coupled_" \o ToString(depth)),
                     "input", "usize"),
         LAMBDA c : add_out_port(c, "output", "usize"))

\* LI::new
LI_new(width, depth) ==
    LET coupled == DEVStone_coupled(depth)
    IN IF depth = 1
       THEN LET c1 == Then(coupled, LAMBDA c :
                         add_component(c, DEVStoneAtomic_new("inner_atomic")))
                c2 == Then(c1, LAMBDA c :
                         add_eic(c, "input", "inner_atomic", "input"))
            IN Then(c2, LAMBDA c :
                   add_eoc(c, "inner_atomic", "output", "output"))
       ELSE LET subcoupled == LI_new(width, depth - 1)
                subcoupled_name == subcoupled.component.name
                c1 == Then(coupled, LAMBDA c : add_component(c, subcoupled))
                c2 == Then(c1, LAMBDA c :
                         add_eic(c, "input", subcoupled_name, "input"))
                c3 == Then(c2, LAMBDA c :
                         add_eoc(c, subcoupled_name, "output", "output"))
            IN LI_atomics(c3, 1, width)

\* LI::create
LI_create(width, depth) ==
    LET li == LI_new(width, depth)
        c1 == add_component(Coupled_new("LI"), DEVStoneSeeder_new("seeder"))
        c2 == Then(c1, LAMBDA c : add_component(c, li))
    IN Then(c2, LAMBDA c :
           add_ic(c, "seeder", "output", li.component.name, "input"))

\* HI_atomics with each internal coupling from atomic_i to atomic_{i-1}
HI_atomics_reversed(coupled, i, width) ==
    IF i >= width THEN coupled
    ELSE LET atomic_name == "atomic_" \o ToString(i)
             c1 == Then(coupled, LAMBDA c :
                       add_component(c, DEVStoneAtomic_new(atomic_name)))
             c2 == Then(c1, LAMBDA c : add_eic(c, "input", atomic_name, "input"))
             c3 == IF i > 1
                   THEN Then(c2, LAMBDA c :
                            add_ic(c, atomic_name, "output",
                                   "atomic_" \o ToString(i - 1), "input"))
                   ELSE c2
         IN HI_atomics_reversed(c3, i + 1, width)

\* HI::new: for i in 1..width { add_component(atomic_i); add_eic(..);
\* if i > 1 { add_ic(atomic_{i-1}, atomic_i) } }
HI_atomics(coupled, i, width) ==
    IF i >= width THEN coupled
    ELSE LET atomic_name == "atomic_" \o ToString(i)
             c1 == Then(coupled, LAMBDA c :
                       add_component(c, DEVStoneAtomic_new(atomic_name)))
             c2 == Then(c1, LAMBDA c : add_eic(c, "input", atomic_name, "input"))
             c3 == IF i > 1
                   THEN Then(c2, LAMBDA c :
                            add_ic(c, "atomic_" \o ToString(i - 1), "output",
                                   atomic_name, "input"))
                   ELSE c2
         IN HI_atomics(c3, i + 1, width)

\* HI::new
HI_new(width, depth) ==
    LET coupled == DEVStone_coupled(depth)
    IN IF depth = 1
       THEN LET c1 == Then(coupled, LAMBDA c :
                         add_component(c, DEVStoneAtomic_new("inner_atomic")))
                c2 == Then(c1, LAMBDA c :
                         add_eic(c, "input", "inner_atomic", "input"))
            IN Then(c2, LAMBDA c :
                   add_eoc(c, "inner_atomic", "output", "output"))
       ELSE LET subcoupled == HI_new(width, depth - 1)
                subcoupled_name == subcoupled.component.name
                c1 == Then(coupled, LAMBDA c : add_component(c, subcoupled))
                c2 == Then(c1, LAMBDA c :
                         add_eic(c, "input", subcoupled_name, "input"))
                c3 == Then(c2, LAMBDA c :
                         add_eoc(c, subcoupled_name, "output", "output"))
            IN HI_atomics(c3, 1, width)

\* HI::create
HI_create(width, depth) ==
    LET hi == HI_new(width, depth)
        c1 == add_component(Coupled_new("HI"), DEVStoneSeeder_new("seeder"))
        c2 == Then(c1, LAMBDA c : add_component(c, hi))
    IN Then(c2, LAMBDA c :
           add_ic(c, "seeder", "output", hi.component.name, "input"))

\* The simulators of the model held by builder, each under its path from
\* the root: the names of the models from the root down, joined by "/".
RECURSIVE Tree(_, _)
Tree(path, x) ==
    {[path |-> path, sim |-> x]}
    \cup (IF "components" \in DOMAIN x
          THEN UNION {Tree(path \o "/" \o component_of(x.components[i]).name,
                           x.components[i]) : i \in 1..Len(x.components)}
          ELSE {})

ModelTree == Tree(builder.component.name, builder)

ModelRoot == builder.component.name

ModelNodes == {e.path : e \in ModelTree}

Sim_of(n) == (CHOOSE e \in ModelTree : e.path = n).sim

ModelAtomics == {e.path : e \in {x \in ModelTree : "atomic" \in DOMAIN x.sim}}

ModelCoupleds == ModelNodes \ ModelAtomics

\* Component::in_ports / out_ports of the model at path n, each port under
\* the path of its component
ModelInPorts(n) ==
    LET c == component_of(Sim_of(n))
    IN [i \in 1..Len(c.in_ports) |-> <<n, "in", c.in_ports[i][3]>>]

ModelOutPorts(n) ==
    LET c == component_of(Sim_of(n))
    IN [i \in 1..Len(c.out_ports) |-> <<n, "out", c.out_ports[i][3]>>]

ModelPorts ==
    UNION {{ModelInPorts(n)[i] : i \in 1..Len(ModelInPorts(n))}
             \cup {ModelOutPorts(n)[i] : i \in 1..Len(ModelOutPorts(n))} :
           n \in ModelNodes}

\* Coupled::components of the coupled at path c
ModelComponents(c) ==
    LET x == Sim_of(c)
    IN [i \in 1..Len(x.components) |->
           c \o "/" \o component_of(x.components[i]).name]

\* Coupled::eics, ics, eocs of the coupled at path c: an EIC leaves a port of
\* the coupled, an EOC reaches one, the other ends are ports of components
ModelCouplings(c, kind) ==
    LET x == Sim_of(c)
        at(p, own) == <<IF own THEN c ELSE c \o "/" \o p[1], p[2], p[3]>>
    IN [i \in 1..Len(x.vecs[kind]) |->
           <<at(x.vecs[kind][i][1], kind = "eoc"),
             at(x.vecs[kind][i][2], kind = "eic")>>]

\* the sequential iteration of the coupled models of the model
ModelIteration ==
    [c \in ModelCoupleds |->
        [comps |-> ModelComponents(c),
         eics |-> << <<"eic", ModelCouplings(c, "eic")>> >>,
         xxcs |-> << <<"eoc", ModelCouplings(c, "eoc")>>,
                     <<"ic", ModelCouplings(c, "ic")>> >>]]

----------------------------------------------------------------------------
(* Simulation state threaded through the calls: the fields of the          *)
(* components plus the value returned by the last call (ret).              *)

Logged(s, op, n, tt, arg, inp) ==
    [s EXCEPT !.log = Append(@, [op |-> op, node |-> n, t |-> tt,
                                  arg |-> arg, inp |-> inp])]

\* the call on node n at time tt returns value v
Returned(s, n, tt, v) ==
    [Logged(s, "return", n, tt, v, FALSE) EXCEPT !.ret = v]

\* set_sim_t with the two clocks exchanged
set_sim_t_swapped(s, n, tl, tn) ==
    [s EXCEPT !.t_last[n] = tn, !.t_next[n] = tl]

\* Component::set_sim_t
set_sim_t(s, n, tl, tn) ==
    [s EXCEPT !.t_last[n] = tl, !.t_next[n] = tn]

\* Component::in_ports / out_ports of node n, of the model above or of a
\* model of the library
InPortsOf(n) == IF n \in Nodes THEN in_ports(n) ELSE ModelInPorts(n)
OutPortsOf(n) == IF n \in Nodes THEN out_ports(n) ELSE ModelOutPorts(n)

\* Component::is_input_empty
is_input_empty(s, n) ==
    LET ports == InPortsOf(n)
    IN \A i \in 1..Len(ports) : s.bag[ports[i]] = <<>>

\* Component::clear_input
clear_input(s, n) ==
    LET ports == InPortsOf(n)
    IN Logged([s EXCEPT !.bag = [p \in DOMAIN s.bag |->
                   IF \E i \in 1..Len(ports) : ports[i] = p
                   THEN <<>> ELSE s.bag[p]]],
              "clear_input", n, 0, 0, FALSE)

\* Component::clear_output
clear_output(s, n) ==
    LET ports == OutPortsOf(n)
    IN Logged([s EXCEPT !.bag = [p \in DOMAIN s.bag |->
                   IF \E i \in 1..Len(ports) : ports[i] = p
                   THEN <<>> ELSE s.bag[p]]],
              "clear_output", n, 0, 0, FALSE)

\* Port::propagate, called as port_from.propagate(port_to): the messages of
\* port_from are appended to port_to
propagate(s, port_from, port_to) ==
    [s EXCEPT !.bag[port_to] = @ \o s.bag[port_from]]

----------------------------------------------------------------------------
(* rt::wait_event.  The wall clock counts ticks (the nanoseconds of         *)
(* Duration) since start_rt; virtual times are counted in a unit of which   *)
(* VtPerTick make one tick (time_scale).                                    *)

VtPerTick == 3

\* Option::None
None == -1

\* Duration::from_secs_f64((next_vt - last_vt) * time_scale): the nearest
\* whole number of ticks
from_secs_f64(dv) == (2 * dv + VtPerTick) \div (2 * VtPerTick)

\* duration.as_secs_f64() / time_scale
as_secs_f64(ticks) == ticks * VtPerTick

\* let mut last_vt = 0.; let mut last_rt = SystemTime::now();
\* let start_rt = last_rt;
NewWaiter(max_jitter) ==
    [last_vt |-> 0, last_rt |-> 0, now |-> 0, max_jitter |-> max_jitter,
     status |-> "new", next_vt |-> 0, next_rt |-> None, ret |-> 0]

\* wait_event that panics as soon as the jitter reaches max_jitter
wait_event_ge(w, next_vt, wake) ==
    LET next_rt == IF next_vt = INFINITY THEN None
                   ELSE w.last_rt + from_secs_f64(next_vt - w.last_vt)
        call == [w EXCEPT !.now = wake, !.next_vt = next_vt,
                          !.next_rt = next_rt]
    IN IF next_rt # None /\ wake >= next_rt
       THEN IF w.max_jitter # None /\ wake - next_rt >= w.max_jitter
            THEN [call EXCEPT !.status = "panicked"]
            ELSE [call EXCEPT !.status = "returned", !.last_rt = next_rt,
                              !.last_vt = next_vt, !.ret = next_vt]
       ELSE [call EXCEPT !.status = "returned", !.last_rt = wake,
                         !.last_vt = as_secs_f64(wake),
                         !.ret = as_secs_f64(wake)]

\* the closure wait_event returns, called with next_vt; wake is the wall
\* clock (SystemTime::now()) once input_handler has returned
wait_event(w, next_vt, wake) ==
    LET next_rt == IF next_vt = INFINITY THEN None
                   ELSE w.last_rt + from_secs_f64(next_vt - w.last_vt)
        call == [w EXCEPT !.now = wake, !.next_vt = next_vt,
                          !.next_rt = next_rt]
    IN IF next_rt # None /\ wake >= next_rt
       THEN IF w.max_jitter # None /\ wake - next_rt > w.max_jitter
            THEN [call EXCEPT !.status = "panicked"]
            ELSE [call EXCEPT !.status = "returned", !.last_rt = next_rt,
                              !.last_vt = next_vt, !.ret = next_vt]
       ELSE [call EXCEPT !.status = "returned", !.last_rt = wake,
                         !.last_vt = as_secs_f64(wake),
                         !.ret = as_secs_f64(wake)]

----------------------------------------------------------------------------
(* Injection of external events: Component::inject and the input queue.    *)

\* Event(port, value): the names and the textual values senders can give
PortNames == {"in", "out", "ghost"}
TextValues == {"x", "?"}
Events == PortNames \X TextValues

\* Component::get_in_port: the input port of node n with that name, as a
\* sequence (empty when there is none)
get_in_port(n, name) ==
    SelectSeq(in_ports(n), LAMBDA port : port = <<n, name>>)

\* parsing of a textual value to the type of the port: "?" stands for the
\* texts that do not parse, any other text stands for its own value
parses(value) == value # "?"

\* Port::inject: appends the parsed value to the bag of the port
port_inject(b, port, value) ==
    IF ~parses(value)
    THEN [bag |-> b, res |-> "Err"]
    ELSE [bag |-> [b EXCEPT ![port] = Append(@, value)], res |-> "Ok"]

\* Component::inject that adds the text to the bag before parsing it
Component_inject_unparsed(b, n, event) ==
    LET port == get_in_port(n, event[1])
    IN IF port = <<>> THEN [bag |-> b, res |-> "UnknownPort"]
       ELSE IF ~parses(event[2])
            THEN [bag |-> [b EXCEPT ![port[1]] = Append(@, event[2])],
                  res |-> "ValueParseError"]
            ELSE [bag |-> port_inject(b, port[1], event[2]).bag, res |-> "Ok"]

\* Component::inject
Component_inject(b, n, event) ==
    LET port == get_in_port(n, event[1])
    IN IF port = <<>> THEN [bag |-> b, res |-> "UnknownPort"]
       ELSE LET r == port_inject(b, port[1], event[2])
            IN IF r.res = "Err"
               THEN [bag |-> r.bag, res |-> "ValueParseError"]
               ELSE r

----------------------------------------------------------------------------
(* Author-supplied behaviour of the atomic models.  ch[a] is the state the  *)
(* called function leaves atomic a in (any state: the hooks are arbitrary   *)
(* user code, a no-op included).                                            *)

\* f64 subtraction on the modelled times
Sub(a, b) == IF a = INFINITY THEN INFINITY ELSE a - b

\* lambda of the atomics of the library: the bags after the call
Model_lambda(s, a) ==
    LET kind == Sim_of(a).atomic
        st == s.state[a]
    IN CASE kind = "Generator" ->
              [s.bag EXCEPT ![<<a, "out", "output_req">>] = Append(@, st.count)]
         [] kind = "Processor" ->
              IF st.job # <<>>
              THEN [s.bag EXCEPT ![<<a, "out", "output_res">>] =
                       Append(@, <<st.job[1], st.time>>)]
              ELSE s.bag
         [] kind = "Transducer" ->
              [s.bag EXCEPT ![<<a, "out", "output_stop">>] = Append(@, TRUE)]
         [] kind = "DEVStoneAtomic" ->
              [s.bag EXCEPT ![<<a, "out", "output">>] = Append(@, st.n_events)]
         [] kind = "DEVStoneSeeder" ->
              [s.bag EXCEPT ![<<a, "out", "output">>] = Append(@, 0)]

\* delta_int of the atomics of the library: the state after the call
Model_delta_int(s, a) ==
    LET kind == Sim_of(a).atomic
        st == s.state[a]
    IN CASE kind = "Generator" ->
              [st EXCEPT !.count = @ + 1, !.sigma = st.period]
         [] kind = "Processor" -> [st EXCEPT !.sigma = INFINITY, !.job = <<>>]
         [] kind = "Transducer" -> [st EXCEPT !.sigma = INFINITY]
         [] kind = "DEVStoneAtomic" ->
              [st EXCEPT !.n_internals = @ + 1, !.sigma = INFINITY]
         [] kind = "DEVStoneSeeder" -> [st EXCEPT !.sigma = INFINITY]

\* delta_ext of the atomics of the library: the state after the call
Model_delta_ext(s, a, e) ==
    LET kind == Sim_of(a).atomic
        st == s.state[a]
    IN CASE kind = "Generator" ->
              IF s.bag[<<a, "in", "input_stop">>] # <<>>
              THEN [st EXCEPT !.sigma = INFINITY]
              ELSE [st EXCEPT !.sigma = Sub(@, e)]
         [] kind = "Processor" ->
              IF st.job = <<>>
              THEN [st EXCEPT !.job = <<Head(s.bag[<<a, "in", "input_req">>])>>,
                              !.sigma = st.time]
              ELSE [st EXCEPT !.sigma = Sub(@, e)]
         [] kind = "Transducer" -> [st EXCEPT !.sigma = Sub(@, e)]
         [] kind = "DEVStoneAtomic" ->
              [st EXCEPT !.n_externals = @ + 1,
                         !.n_events = @ + Len(s.bag[<<a, "in", "input">>]),
                         !.sigma = 0]
         [] kind = "DEVStoneSeeder" -> [st EXCEPT !.sigma = INFINITY]

\* Atomic::start (a no-op for the atomics of the library)
hook_start(s, a, ch) ==
    Logged(IF a \in Atomics THEN [s EXCEPT !.state[a] = ch[a]] ELSE s,
           "hook_start", a, 0, 0, FALSE)

\* Atomic::stop (for the atomics of the library, a no-op on their state)
hook_stop(s, a, ch) ==
    Logged(IF a \in Atomics THEN [s EXCEPT !.state[a] = ch[a]] ELSE s,
           "hook_stop", a, 0, 0, FALSE)

\* Atomic::lambda: may only add messages to the output ports of the model
lambda(s, a, tt) ==
    LET s1 == Logged(s, "lambda", a, tt, s.t_next[a], FALSE)
    IN IF a \notin Atomics THEN [s1 EXCEPT !.bag = Model_lambda(s, a)]
       ELSE IF s.state[a].out
       THEN [s1 EXCEPT !.bag[Out(a)] = Append(@, a)]
       ELSE s1

\* Atomic::delta_int
delta_int(s, a, tt, ch) ==
    Logged([s EXCEPT !.state[a] = IF a \in Atomics THEN ch[a]
                                  ELSE Model_delta_int(s, a)],
           "delta_int", a, tt, 0, FALSE)

\* Atomic::delta_ext
delta_ext(s, a, tt, e, ch) ==
    Logged([s EXCEPT !.state[a] = IF a \in Atomics THEN ch[a]
                                  ELSE Model_delta_ext(s, a, e)],
           "delta_ext", a, tt, e, ~is_input_empty(s, a))

\* the transition functions of atomics whose code is fixed: delta_int as a
\* function of the state, delta_ext as a function of the state, the elapsed
\* time and the input bag
InputBags == {<<"x">>, <<"x", "x">>}
ExtArgs == AtomicStates \X (0..MaxTime) \X InputBags

IntFns ==
    {[st \in AtomicStates |-> [sigma |-> INFINITY, out |-> FALSE]],
     [st \in AtomicStates |-> [sigma |-> st.sigma, out |-> ~st.out]],
     [st \in AtomicStates |-> [sigma |-> 0, out |-> st.out]]}

ExtFns ==
    {[x \in ExtArgs |-> [sigma |-> INFINITY, out |-> FALSE]],
     [x \in ExtArgs |-> [sigma |-> x[1].sigma, out |-> ~x[1].out]],
     [x \in ExtArgs |->
         IF x[1].sigma = INFINITY
         THEN [sigma |-> Len(x[3]) - 1, out |-> TRUE]
         ELSE [sigma |-> IF x[1].sigma >= x[2] THEN x[1].sigma - x[2] ELSE 0,
               out |-> x[1].out]]}

\* atomics that keep the default delta_conf
DefaultConf == [conf : {"default"}, int : IntFns, ext : ExtFns]

\* atomics whose transition functions are arbitrary author code
AnyBehaviour == [conf |-> "author", int |-> <<>>, ext |-> <<>>]

\* delta_conf_default with the two calls exchanged
delta_conf_ext_first(s, a, tt) ==
    LET s1 == Logged([s EXCEPT !.state[a] =
                         behaviour.ext[<<s.state[a], 0, s.bag[In(a)]>>]],
                     "delta_ext", a, tt, 0, ~is_input_empty(s, a))
    IN Logged([s1 EXCEPT !.state[a] = behaviour.int[s1.state[a]]],
              "delta_int", a, tt, 0, FALSE)

\* the default body of delta_conf: self.delta_int(); self.delta_ext(0.);
delta_conf_default(s, a, tt) ==
    LET s1 == Logged([s EXCEPT !.state[a] = behaviour.int[s.state[a]]],
                     "delta_int", a, tt, 0, FALSE)
    IN Logged([s1 EXCEPT !.state[a] =
                  behaviour.ext[<<s1.state[a], 0, s1.bag[In(a)]>>]],
              "delta_ext", a, tt, 0, ~is_input_empty(s1, a))

\* Atomic::delta_conf: overridden by the author, or the default body
delta_conf(s, a, tt, ch) ==
    IF a \notin Atomics
    THEN delta_ext(delta_int(Logged(s, "delta_conf", a, tt, 0,
                                    ~is_input_empty(s, a)), a, tt, ch),
                   a, tt, 0, ch)
    ELSE IF behaviour.conf = "default"
    THEN delta_conf_default(Logged(s, "delta_conf", a, tt, 0,
                                   ~is_input_empty(s, a)), a, tt)
    ELSE Logged([s EXCEPT !.state[a] = ch[a]], "delta_conf", a, tt, 0,
                ~is_input_empty(s, a))

----------------------------------------------------------------------------
(* impl Simulator for T: Atomic *)

\* whether the dyn Simulator n is an atomic model
IsAtomic(n) == n \in Atomics \/ (n \notin Coupleds /\ n \in ModelAtomics)

\* Atomic_start reading the time advance before the start hook has run
Atomic_start_ta_first(s, a, t_start, ch) ==
    LET s0 == Logged(s, "start", a, t_start, 0, FALSE)
        tn == Add(t_start, ta(s0, a))
        s1 == hook_start(s0, a, ch)
    IN Returned(set_sim_t(s1, a, t_start, tn), a, t_start, tn)

Atomic_start(s, a, t_start, ch) ==
    LET s0 == Logged(s, "start", a, t_start, 0, FALSE)
        s1 == hook_start(s0, a, ch)
        tn == Add(t_start, ta(s1, a))
    IN Returned(set_sim_t(s1, a, t_start, tn), a, t_start, tn)

Atomic_stop(s, a, tstop, ch) ==
    LET s0 == Logged(s, "stop", a, tstop, 0, FALSE)
        s1 == set_sim_t(s0, a, tstop, INFINITY)
    IN hook_stop(s1, a, ch)

\* Atomic_collection without the test of the time
Atomic_collection_always(s, a, tt) ==
    lambda(Logged(s, "collection", a, tt, s.t_next[a], FALSE), a, tt)

Atomic_collection(s, a, tt) ==
    LET s0 == Logged(s, "collection", a, tt, s.t_next[a], FALSE)
    IN IF tt >= s0.t_next[a] THEN lambda(s0, a, tt) ELSE s0

\* Atomic_transition running delta_int whenever there is no input
Atomic_transition_int_always(s, a, tt, ch) ==
    LET tn == s.t_next[a]
        s0 == Logged(s, "transition", a, tt, tn, ~is_input_empty(s, a))
        finish(s2) == LET tn2 == Add(tt, ta(s2, a))
                      IN Returned(set_sim_t(s2, a, tt, tn2), a, tt, tn2)
    IN IF ~is_input_empty(s0, a)
       THEN IF tt = tn
            THEN finish(clear_input(clear_output(delta_conf(s0, a, tt, ch), a), a))
            ELSE finish(clear_input(delta_ext(s0, a, tt, tt - s0.t_last[a], ch), a))
       ELSE finish(clear_output(delta_int(s0, a, tt, ch), a))

\* Atomic_transition producing the output after the internal transition
Atomic_transition_then_lambda(s, a, tt, ch) ==
    LET tn == s.t_next[a]
        s0 == Logged(s, "transition", a, tt, tn, ~is_input_empty(s, a))
        finish(s2) == LET tn2 == Add(tt, ta(s2, a))
                      IN Returned(set_sim_t(s2, a, tt, tn2), a, tt, tn2)
    IN IF ~is_input_empty(s0, a)
       THEN IF tt = tn
            THEN finish(clear_input(clear_output(delta_conf(s0, a, tt, ch), a), a))
            ELSE finish(clear_input(delta_ext(s0, a, tt, tt - s0.t_last[a], ch), a))
       ELSE IF tt = tn
            THEN finish(clear_output(lambda(delta_int(s0, a, tt, ch), a, tt), a))
            ELSE Returned(s0, a, tt, tn)

\* Atomic_transition with the confluent case run as an external transition
Atomic_transition_ext_for_conf(s, a, tt, ch) ==
    LET tn == s.t_next[a]
        s0 == Logged(s, "transition", a, tt, tn, ~is_input_empty(s, a))
        finish(s2) == LET tn2 == Add(tt, ta(s2, a))
                      IN Returned(set_sim_t(s2, a, tt, tn2), a, tt, tn2)
    IN IF ~is_input_empty(s0, a)
       THEN finish(clear_input(
                delta_ext(s0, a, tt, tt - s0.t_last[a], ch), a))
       ELSE IF tt = tn
            THEN finish(clear_output(delta_int(s0, a, tt, ch), a))
            ELSE Returned(s0, a, tt, tn)

\* Atomic_transition that clears the output ports after delta_ext as well
Atomic_transition_ext_clears(s, a, tt, ch) ==
    LET tn == s.t_next[a]
        s0 == Logged(s, "transition", a, tt, tn, ~is_input_empty(s, a))
        finish(s2) == LET tn2 == Add(tt, ta(s2, a))
                      IN Returned(set_sim_t(s2, a, tt, tn2), a, tt, tn2)
    IN IF ~is_input_empty(s0, a)
       THEN LET s1 == IF tt = tn
                      THEN clear_output(delta_conf(s0, a, tt, ch), a)
                      ELSE clear_output(
                               delta_ext(s0, a, tt, tt - s0.t_last[a], ch), a)
            IN finish(clear_input(s1, a))
       ELSE IF tt = tn
            THEN finish(clear_output(delta_int(s0, a, tt, ch), a))
            ELSE Returned(s0, a, tt, tn)

Atomic_transition(s, a, tt, ch) ==
    LET tn == s.t_next[a]
        s0 == Logged(s, "transition", a, tt, tn, ~is_input_empty(s, a))
        finish(s2) == LET tn2 == Add(tt, ta(s2, a))
                      IN Returned(set_sim_t(s2, a, tt, tn2), a, tt, tn2)
    IN IF ~is_input_empty(s0, a)
       THEN LET s1 == IF tt = tn
                      THEN clear_output(delta_conf(s0, a, tt, ch), a)
                      ELSE delta_ext(s0, a, tt, tt - s0.t_last[a], ch)
            IN finish(clear_input(s1, a))
       ELSE IF tt = tn
            THEN finish(clear_output(delta_int(s0, a, tt, ch), a))
            ELSE Returned(s0, a, tt, tn)

----------------------------------------------------------------------------
(* impl Simulator for Coupled.  ord[c] tells how coupled c iterates:       *)
(* comps is the order in which it visits its components (their insertion   *)
(* order with iter_mut(), any order with par_iter_mut()); eics and xxcs    *)
(* are the vectors of couplings it walks in transition and in collection,  *)
(* each a sequence of <<kind, couplings>>.                                 *)

RECURSIVE Sim_start(_, _, _, _, _), Coupled_start(_, _, _, _, _),
          start_each(_, _, _, _, _, _, _)
RECURSIVE Sim_stop(_, _, _, _, _), Coupled_stop(_, _, _, _, _),
          stop_each(_, _, _, _, _, _)
RECURSIVE Sim_collection(_, _, _, _), Coupled_collection(_, _, _, _),
          collection_each(_, _, _, _, _)
RECURSIVE Sim_transition(_, _, _, _, _), Coupled_transition(_, _, _, _, _),
          transition_each(_, _, _, _, _, _, _)
RECURSIVE route(_, _, _, _, _), route_groups(_, _, _, _)

\* coups.iter().for_each(|(port_to, port_from)| port_from.propagate(port_to))
route(s, c, kind, coups, i) ==
    IF i > Len(coups) THEN s
    ELSE route(propagate(Logged(s, kind, c, 0, i, FALSE),
                         coups[i][2], coups[i][1]),
               c, kind, coups, i + 1)

\* the for_each loops over the vectors of couplings, one after the other:
\* self.eocs then self.ics, or the vectors of self.par_xxcs
route_groups(s, c, groups, g) ==
    IF g > Len(groups) THEN s
    ELSE route_groups(route(s, c, groups[g][1], groups[g][2], 1), c, groups,
                      g + 1)

\* iter.map(|c| c.start(t_start)).min_by(|a, b| a.total_cmp(b))
\*     .unwrap_or(f64::INFINITY); acc is the minimum so far
start_each(s, comps, i, t_start, ch, ord, acc) ==
    IF i > Len(comps) THEN [s EXCEPT !.ret = acc]
    ELSE LET s1 == Sim_start(s, comps[i], t_start, ch, ord)
         IN start_each(s1, comps, i + 1, t_start, ch, ord, Min(acc, s1.ret))

Coupled_start(s, c, t_start, ch, ord) ==
    LET s0 == Logged(s, "start", c, t_start, 0, FALSE)
        s1 == start_each(s0, ord[c].comps, 1, t_start, ch, ord, INFINITY)
        tn == s1.ret
    IN Returned(set_sim_t(s1, c, t_start, tn), c, t_start, tn)

\* dyn Simulator dispatch of start
Sim_start(s, n, t_start, ch, ord) ==
    IF IsAtomic(n) THEN Atomic_start(s, n, t_start, ch)
    ELSE Coupled_start(s, n, t_start, ch, ord)

\* iter.for_each(|c| c.stop(t_stop))
stop_each(s, comps, i, tstop, ch, ord) ==
    IF i > Len(comps) THEN s
    ELSE stop_each(Sim_stop(s, comps[i], tstop, ch, ord), comps, i + 1,
                   tstop, ch, ord)

\* Coupled_stop that finalises its own clocks without stopping its components
Coupled_stop_shallow(s, c, tstop, ch, ord) ==
    set_sim_t(Logged(s, "stop", c, tstop, 0, FALSE), c, tstop, INFINITY)

Coupled_stop(s, c, tstop, ch, ord) ==
    LET s0 == Logged(s, "stop", c, tstop, 0, FALSE)
        s1 == stop_each(s0, ord[c].comps, 1, tstop, ch, ord)
    IN set_sim_t(s1, c, tstop, INFINITY)

\* dyn Simulator dispatch of stop
Sim_stop(s, n, tstop, ch, ord) ==
    IF IsAtomic(n) THEN Atomic_stop(s, n, tstop, ch)
    ELSE Coupled_stop(s, n, tstop, ch, ord)

\* iter.for_each(|c| c.collection(t))
collection_each(s, comps, i, tt, ord) ==
    IF i > Len(comps) THEN s
    ELSE collection_each(Sim_collection(s, comps[i], tt, ord), comps, i + 1,
                         tt, ord)

\* Coupled_collection without the test of the time
Coupled_collection_unguarded(s, c, tt, ord) ==
    LET s0 == Logged(s, "collection", c, tt, s.t_next[c], FALSE)
        s1 == collection_each(s0, ord[c].comps, 1, tt, ord)
    IN route_groups(s1, c, ord[c].xxcs, 1)

\* Coupled_collection that applies its couplings before its components
\* collect
Coupled_collection_routing_first(s, c, tt, ord) ==
    LET s0 == Logged(s, "collection", c, tt, s.t_next[c], FALSE)
    IN IF tt >= s0.t_next[c]
       THEN collection_each(route_groups(s0, c, ord[c].xxcs, 1),
                            ord[c].comps, 1, tt, ord)
       ELSE s0

Coupled_collection(s, c, tt, ord) ==
    LET s0 == Logged(s, "collection", c, tt, s.t_next[c], FALSE)
    IN IF tt >= s0.t_next[c]
       THEN LET s1 == collection_each(s0, ord[c].comps, 1, tt, ord)
            IN route_groups(s1, c, ord[c].xxcs, 1)
       ELSE s0

\* dyn Simulator dispatch of collection
Sim_collection(s, n, tt, ord) ==
    IF IsAtomic(n) THEN Atomic_collection(s, n, tt)
    ELSE Coupled_collection(s, n, tt, ord)

\* transition_each returning the value of the last component instead of the
\* minimum
transition_each_last(s, comps, i, tt, ch, ord, acc) ==
    IF i > Len(comps) THEN [s EXCEPT !.ret = acc]
    ELSE LET s1 == Sim_transition(s, comps[i], tt, ch, ord)
         IN transition_each(s1, comps, i + 1, tt, ch, ord, s1.ret)

\* iterator.map(|c| c.transition(t)).min_by(|a, b| a.total_cmp(b))
\*     .unwrap_or(f64::INFINITY); acc is the minimum so far
transition_each(s, comps, i, tt, ch, ord, acc) ==
    IF i > Len(comps) THEN [s EXCEPT !.ret = acc]
    ELSE LET s1 == Sim_transition(s, comps[i], tt, ch, ord)
         IN transition_each(s1, comps, i + 1, tt, ch, ord, Min(acc, s1.ret))

\* Coupled_transition that calls the transition of its components whether or
\* not it has input or its time has come
Coupled_transition_unconditional(s, c, tt, ch, ord) ==
    LET is_external == ~is_input_empty(s, c)
        s0 == Logged(s, "transition", c, tt, s.t_next[c], is_external)
        s1 == IF is_external
              THEN clear_input(route_groups(s0, c, ord[c].eics, 1), c)
              ELSE s0
        is_internal == tt >= s1.t_next[c]
        s2 == IF is_internal THEN clear_output(s1, c) ELSE s1
        s4 == transition_each(s2, ord[c].comps, 1, tt, ch, ord, INFINITY)
        s3 == set_sim_t(s4, c, tt, s4.ret)
    IN Returned(s3, c, tt, s3.t_next[c])

\* Coupled_transition that leaves the output ports as collection filled them
Coupled_transition_keep_output(s, c, tt, ch, ord) ==
    LET is_external == ~is_input_empty(s, c)
        s0 == Logged(s, "transition", c, tt, s.t_next[c], is_external)
        s1 == IF is_external
              THEN clear_input(route_groups(s0, c, ord[c].eics, 1), c)
              ELSE s0
        is_internal == tt >= s1.t_next[c]
        s3 == IF is_external \/ is_internal
              THEN LET s4 == transition_each(s1, ord[c].comps, 1, tt, ch, ord,
                                             INFINITY)
                   IN set_sim_t(s4, c, tt, s4.ret)
              ELSE s1
    IN Returned(s3, c, tt, s3.t_next[c])

Coupled_transition(s, c, tt, ch, ord) ==
    LET is_external == ~is_input_empty(s, c)
        s0 == Logged(s, "transition", c, tt, s.t_next[c], is_external)
        s1 == IF is_external
              THEN clear_input(route_groups(s0, c, ord[c].eics, 1), c)
              ELSE s0
        is_internal == tt >= s1.t_next[c]
        s2 == IF is_internal THEN clear_output(s1, c) ELSE s1
        s3 == IF is_external \/ is_internal
              THEN LET s4 == transition_each(s2, ord[c].comps, 1, tt, ch, ord,
                                             INFINITY)
                   IN set_sim_t(s4, c, tt, s4.ret)
              ELSE s2
    IN Returned(s3, c, tt, s3.t_next[c])

\* dyn Simulator dispatch of transition
Sim_transition(s, n, tt, ch, ord) ==
    IF IsAtomic(n) THEN Atomic_transition(s, n, tt, ch)
    ELSE Coupled_transition(s, n, tt, ch, ord)

----------------------------------------------------------------------------
(* RootCoordinator *)

\* par_eics: Vec::new(), par_xxcs: Vec::new() of Coupled::new, for every
\* coupled model
NoVectors == [c \in Coupleds |-> <<>>]

\* the components as one record, with an empty call log
Cur == [t_last |-> t_last, t_next |-> t_next, state |-> state, bag |-> bag,
        log |-> log, ret |-> 0]

Fresh == [Cur EXCEPT !.log = <<>>]

\* no event is scheduled after MaxTime
Bounded(s) == \A n \in Nodes : s.t_next[n] = INFINITY \/ s.t_next[n] <= MaxTime

Install(s) ==
    /\ Bounded(s)
    /\ t_last' = s.t_last
    /\ t_next' = s.t_next
    /\ state' = s.state
    /\ bag' = s.bag
    /\ log' = s.log

\* the orders in which the components of the coupled models can be visited
\* by phase ph: iter_mut() follows Coupled::components, par_iter_mut() runs
\* the components in any order
IterOrders(q) ==
    LET elems == {q[i] : i \in 1..Len(q)}
    IN {[i \in 1..Len(q) |-> r[i]] :
           r \in {r \in [1..Len(q) -> elems] :
                     \A x \in elems : \E j \in 1..Len(q) : r[j] = x}}

\* the iteration of the coupled models whose components are visited in the
\* orders o: without par_couplings transition walks self.eics and collection
\* walks self.eocs then self.ics; with it they walk self.par_eics and
\* self.par_xxcs, which start() fills with build_par_eics(), then
\* build_par_eocs() and build_par_ics()
Iteration(o, couplings, pe, px) ==
    [c \in Coupleds |->
        [comps |-> o[c],
         eics |-> IF couplings THEN pe[c] ELSE << <<"eic", eics(c)>> >>,
         xxcs |-> IF couplings THEN px[c]
                  ELSE << <<"eoc", eocs(c)>>, <<"ic", ics(c)>> >>]]

InsertionOrder == [c \in Coupleds |-> components(c)]

Sequential == Iteration(InsertionOrder, FALSE, <<>>, <<>>)

AnyOrder ==
    {[c \in Coupleds |-> o[c]] :
        o \in {o \in [Coupleds ->
                         UNION {IterOrders(components(c)) : c \in Coupleds}] :
                  \A c \in Coupleds : o[c] \in IterOrders(components(c))}}

Orders(ph) ==
    {Iteration(o, "par_couplings" \in par, par_eics, par_xxcs) :
        o \in IF ph \in par THEN AnyOrder ELSE {InsertionOrder}}

Choices == [Atomics -> AtomicStates]

\* the atomics on which a transition function runs in a sequence of calls
Touched(l) ==
    {l[i].node : i \in {j \in 1..Len(l) :
                          l[j].op \in {"delta_int", "delta_ext", "delta_conf"}}}

\* outcomes of the transition functions: any state for the atomics on which
\* one runs at time tt (which atomics these are does not depend on the outcome)
DeltaChoices(tt) ==
    LET touched == Touched(Sim_transition(Fresh, Root, tt, state, Sequential).log)
    IN {[a \in Atomics |-> IF a \in touched THEN x[a] ELSE state[a]] :
            x \in [touched -> AtomicStates]}

\* outcomes of the stop hooks: the default no-op, or a passivated model
Passive == [sigma |-> INFINITY, out |-> FALSE]
StopChoices == {state, [a \in Atomics |-> Passive]}

Init ==
    /\ mode \in {"vt", "rt"}
    /\ pc = "new"
    /\ t_stop \in StopVals
    /\ t = 0
    /\ t_next_loc = 0
    /\ t_last = [n \in Nodes |-> 0]
    /\ t_next = [n \in Nodes |-> INFINITY]
    /\ state = [a \in Atomics |-> Passive]
    /\ bag = [p \in Ports |-> <<>>]
    /\ log = <<>>
    /\ par = {}
    /\ behaviour = AnyBehaviour
    /\ hasher = PortList
    /\ par_eics = NoVectors
    /\ par_xxcs = NoVectors
    /\ waiter = NewWaiter(None)
    /\ builder = NewCoupled

\* Coupled::start with feature par_couplings, on every coupled model:
\* self.build_par_eics(); self.build_par_eocs(); self.build_par_ics(); each
\* pushes its vectors onto those that par_eics and par_xxcs hold
BuildPar ==
    IF "par_couplings" \in par
    THEN /\ par_eics' = [c \in Coupleds |->
                            par_eics[c] \o build_par_eics(c, hasher)]
         /\ par_xxcs' = [c \in Coupleds |->
                            par_xxcs[c] \o build_par_eocs(c, hasher)
                                        \o build_par_ics(c, hasher)]
    ELSE UNCHANGED <<par_eics, par_xxcs>>

\* simulate: let mut t_next = self.start(0.);
SimulateStart ==
    /\ mode = "vt" /\ pc = "new"
    /\ \E ord \in Orders("par_start"), ch \in Choices :
         \E s \in {Sim_start(Fresh, Root, 0, ch, ord)} :
            Install(s) /\ t_next_loc' = s.ret
    /\ BuildPar
    /\ pc' = "loop"
    /\ UNCHANGED <<config, mode, t_stop, t>>

\* SimulateCollection running the loop while t_next <= t_stop
SimulateCollection_le ==
    /\ mode = "vt" /\ pc = "loop"
    /\ t_next_loc <= t_stop
    /\ \E ord \in Orders("par_collection") :
         \E s \in {Sim_collection(Fresh, Root, t_next_loc, ord)} : Install(s)
    /\ pc' = "collected"
    /\ UNCHANGED <<fixed, mode, t_stop, t, t_next_loc>>

\* simulate: while t_next < t_stop { self.collection(t_next);
SimulateCollection ==
    /\ mode = "vt" /\ pc = "loop"
    /\ t_next_loc < t_stop
    /\ \E ord \in Orders("par_collection") :
         \E s \in {Sim_collection(Fresh, Root, t_next_loc, ord)} : Install(s)
    /\ pc' = "collected"
    /\ UNCHANGED <<fixed, mode, t_stop, t, t_next_loc>>

\* simulate: t_next = self.transition(t_next); }
SimulateTransition ==
    /\ mode = "vt" /\ pc = "collected"
    /\ \E ord \in Orders("par_transition"), ch \in DeltaChoices(t_next_loc) :
         \E s \in {Sim_transition(Cur, Root, t_next_loc, ch, ord)} :
            Install(s) /\ t_next_loc' = s.ret
    /\ pc' = "loop"
    /\ UNCHANGED <<fixed, mode, t_stop, t>>

\* SimulateStop calling stop with the stop time of the run
SimulateStop_at_t_stop ==
    /\ mode = "vt" /\ pc = "loop"
    /\ ~(t_next_loc < t_stop)
    /\ \E ord \in Orders("par_stop"), ch \in StopChoices :
         \E s \in {Sim_stop(Fresh, Root, t_stop, ch, ord)} : Install(s)
    /\ pc' = "done"
    /\ UNCHANGED <<fixed, mode, t_stop, t, t_next_loc>>

\* simulate: self.stop(t_next);
SimulateStop ==
    /\ mode = "vt" /\ pc = "loop"
    /\ ~(t_next_loc < t_stop)
    /\ \E ord \in Orders("par_stop"), ch \in StopChoices :
         \E s \in {Sim_stop(Fresh, Root, t_next_loc, ch, ord)} : Install(s)
    /\ pc' = "done"
    /\ UNCHANGED <<fixed, mode, t_stop, t, t_next_loc>>

\* simulate_rt: let mut t = 0.; let mut t_next_internal = self.start(t);
SimulateRtStart ==
    /\ mode = "rt" /\ pc = "new"
    /\ \E ord \in Orders("par_start"), ch \in Choices :
         \E s \in {Sim_start(Fresh, Root, 0, ch, ord)} :
            Install(s) /\ t_next_loc' = s.ret
    /\ BuildPar
    /\ t' = 0
    /\ pc' = "rt_loop"
    /\ UNCHANGED <<config, mode, t_stop>>

\* the virtual times rt::wait_event can return when called with t_until after
\* having returned last_vt: t_until when it wakes up on time or late, the
\* wall-clock time mapped to virtual time when it wakes up early
WaitResults(last_vt, t_until) ==
    {tw \in last_vt..MaxTime : tw <= t_until}

\* simulate_rt: while t < t_stop { let t_until = f64::min(t_next_internal,
\* t_stop); t = wait_event(t_until, self);
\* the input handler of the waiter may add a message to the root input port
SimulateRtWait ==
    /\ mode = "rt" /\ pc = "rt_loop"
    /\ t < t_stop
    /\ LET t_until == Min(t_next_loc, t_stop)
       IN \E tw \in WaitResults(t, t_until), inject \in BOOLEAN :
            /\ t' = tw
            /\ bag' = IF inject
                      THEN [bag EXCEPT ![In(Root)] = Append(@, "x")]
                      ELSE bag
            /\ log' = <<[op |-> "wait_event", node |-> Root, t |-> tw,
                         arg |-> t_until, inp |-> inject]>>
    /\ pc' = "rt_waited"
    /\ UNCHANGED <<fixed, mode, t_stop, t_next_loc, t_last, t_next, state>>

\* SimulateRtCollection without the test of t against t_next_internal
SimulateRtCollection_always ==
    /\ mode = "rt" /\ pc = "rt_waited"
    /\ \E ord \in Orders("par_collection") :
         \E s \in {Sim_collection(Cur, Root, t, ord)} :
            Install(Logged(s, "output_handler", Root, t, 0, FALSE))
    /\ pc' = "rt_collected"
    /\ UNCHANGED <<fixed, mode, t_stop, t, t_next_loc>>

\* simulate_rt: if t >= t_next_internal { self.collection(t);
\* output_handler(self); }
SimulateRtCollection ==
    /\ mode = "rt" /\ pc = "rt_waited"
    /\ t >= t_next_loc
    /\ \E ord \in Orders("par_collection") :
         \E s \in {Sim_collection(Cur, Root, t, ord)} :
            Install(Logged(s, "output_handler", Root, t, 0, FALSE))
    /\ pc' = "rt_collected"
    /\ UNCHANGED <<fixed, mode, t_stop, t, t_next_loc>>

\* SimulateRtSkip without the test of the input: the transition runs after
\* every early wake-up
SimulateRtSkip_transition ==
    /\ mode = "rt" /\ pc = "rt_waited"
    /\ ~(t >= t_next_loc)
    /\ is_input_empty(Cur, Root)
    /\ \E ord \in Orders("par_transition"), ch \in DeltaChoices(t) :
         \E s \in {Sim_transition(Cur, Root, t, ch, ord)} :
            Install(s) /\ t_next_loc' = s.ret
    /\ pc' = "rt_loop"
    /\ UNCHANGED <<fixed, mode, t_stop, t>>

\* simulate_rt: else if is_input_empty() { continue; }
SimulateRtSkip ==
    /\ mode = "rt" /\ pc = "rt_waited"
    /\ ~(t >= t_next_loc)
    /\ is_input_empty(Cur, Root)
    /\ pc' = "rt_loop"
    /\ UNCHANGED <<fixed, mode, t_stop, t, t_next_loc, t_last, t_next, state, bag,
                   log>>

\* SimulateRtTransition that does not assign t_next_internal
SimulateRtTransition_keep ==
    /\ mode = "rt"
    /\ \/ pc = "rt_collected"
       \/ pc = "rt_waited" /\ ~(t >= t_next_loc) /\ ~is_input_empty(Cur, Root)
    /\ \E ord \in Orders("par_transition"), ch \in DeltaChoices(t) :
         \E s \in {Sim_transition(Cur, Root, t, ch, ord)} : Install(s)
    /\ pc' = "rt_loop"
    /\ UNCHANGED <<fixed, mode, t_stop, t, t_next_loc>>

\* simulate_rt: t_next_internal = self.transition(t); }
SimulateRtTransition ==
    /\ mode = "rt"
    /\ \/ pc = "rt_collected"
       \/ pc = "rt_waited" /\ ~(t >= t_next_loc) /\ ~is_input_empty(Cur, Root)
    /\ \E ord \in Orders("par_transition"), ch \in DeltaChoices(t) :
         \E s \in {Sim_transition(Cur, Root, t, ch, ord)} :
            Install(s) /\ t_next_loc' = s.ret
    /\ pc' = "rt_loop"
    /\ UNCHANGED <<fixed, mode, t_stop, t>>

\* simulate_rt: self.stop(t_stop);
SimulateRtStop ==
    /\ mode = "rt" /\ pc = "rt_loop"
    /\ ~(t < t_stop)
    /\ \E ord \in Orders("par_stop"), ch \in StopChoices :
         \E s \in {Sim_stop(Fresh, Root, t_stop, ch, ord)} : Install(s)
    /\ pc' = "done"
    /\ UNCHANGED <<fixed, mode, t_stop, t, t_next_loc>>

Next ==
    \/ SimulateStart
    \/ SimulateCollection
    \/ SimulateTransition
    \/ SimulateStop
    \/ SimulateRtStart
    \/ SimulateRtWait
    \/ SimulateRtCollection
    \/ SimulateRtSkip
    \/ SimulateRtTransition
    \/ SimulateRtStop

Spec == Init /\ [][Next]_vars

\* the same drivers with the parallel iteration features compiled in
ParFeatures == {"par_start", "par_stop", "par_collection", "par_transition"}

InitPar ==
    /\ mode \in {"vt", "rt"}
    /\ pc = "new"
    /\ t_stop = ParStop
    /\ t = 0
    /\ t_next_loc = 0
    /\ t_last = [n \in Nodes |-> 0]
    /\ t_next = [n \in Nodes |-> INFINITY]
    /\ state = [a \in Atomics |-> Passive]
    /\ bag = [p \in Ports |-> <<>>]
    /\ log = <<>>
    /\ par = ParFeatures
    /\ behaviour = AnyBehaviour
    /\ hasher = PortList
    /\ par_eics = NoVectors
    /\ par_xxcs = NoVectors
    /\ waiter = NewWaiter(None)
    /\ builder = NewCoupled

SpecPar == InitPar /\ [][Next]_vars

\* the same with the parallel routing of the couplings compiled in as well
InitParCouplings ==
    /\ mode \in {"vt", "rt"}
    /\ pc = "new"
    /\ t_stop = ParStop
    /\ t = 0
    /\ t_next_loc = 0
    /\ t_last = [n \in Nodes |-> 0]
    /\ t_next = [n \in Nodes |-> INFINITY]
    /\ state = [a \in Atomics |-> Passive]
    /\ bag = [p \in Ports |-> <<>>]
    /\ log = <<>>
    /\ par = ParFeatures \cup {"par_couplings"}
    /\ behaviour = AnyBehaviour
    /\ hasher \in HashOrders
    /\ par_eics = NoVectors
    /\ par_xxcs = NoVectors
    /\ waiter = NewWaiter(None)
    /\ builder = NewCoupled

SpecParCouplings == InitParCouplings /\ [][Next]_vars

----------------------------------------------------------------------------
(* Properties *)

DeltaOps == {"delta_int", "delta_ext", "delta_conf"}

\* the entries of a call sequence l made on node n with an operation in ops
CallsOf(l, n, ops) == SelectSeq(l, LAMBDA e : e.node = n /\ e.op \in ops)

\* the step runs Simulator::transition on the root
TransitionStep ==
    /\ pc \in {"collected", "rt_collected", "rt_waited"}
    /\ pc' \in {"loop", "rt_loop"}
    /\ Len(log') > Len(log)

\* the calls made by the step (the transition step extends the log of the
\* iteration)
NewCalls == SubSeq(log', Len(log) + 1, Len(log'))

\* the bags of the ports of node n
BagsOf(b, n) == <<b[In(n)], b[Out(n)]>>

\* what Atomic::transition(t) of atomic a did in this step, for the call e
\* (has_input is the emptiness of the input the call observed)
C1_Row(a, e) ==
    LET called == CallsOf(NewCalls, a, DeltaOps)
        rets == CallsOf(NewCalls, a, {"return"})
        done == /\ t_last'[a] = e.t
                /\ t_next'[a] = Add(e.t, state'[a].sigma)
                /\ Len(rets) = 1 /\ rets[1].arg = t_next'[a]
    IN CASE e.inp /\ e.t = t_next[a] ->
              /\ Len(called) = 1 /\ called[1].op = "delta_conf"
              /\ done
         [] e.inp /\ e.t # t_next[a] ->
              /\ Len(called) = 1 /\ called[1].op = "delta_ext"
              /\ called[1].arg = e.t - t_last[a]
              /\ done
         [] ~e.inp /\ e.t = t_next[a] ->
              /\ Len(called) = 1 /\ called[1].op = "delta_int"
              /\ done
         [] OTHER ->
              /\ called = <<>>
              /\ Len(rets) = 1 /\ rets[1].arg = t_next[a]
              /\ state'[a] = state[a]
              /\ t_last'[a] = t_last[a] /\ t_next'[a] = t_next[a]
              /\ BagsOf(bag', a) = BagsOf(bag, a)

\* C1: every call of transition(t) on an atomic follows the decision table:
\* input and t = t_next: only delta_conf; input and t # t_next: only
\* delta_ext(t - t_last); no input and t = t_next: only delta_int; otherwise
\* no transition function, the old t_next returned and state, clocks and bags
\* of the atomic unchanged.  After a transition function t_last = t and
\* t_next = t + ta(), which is the value returned.
C1_DecisionTable ==
    [][TransitionStep =>
         \A a \in Atomics :
            LET calls == CallsOf(NewCalls, a, {"transition"})
            IN \A i \in 1..Len(calls) : C1_Row(a, calls[i])]_vars

\* a confluent and an external transition have run in the same phase
C1_Witness ==
    /\ pc = "rt_loop"
    /\ \E i \in 1..Len(log) : log[i].op = "delta_conf"
    /\ \E i \in 1..Len(log) : log[i].op = "delta_ext" /\ log[i].arg > 0

\* the calls made by the step: the whole log when the step starts a new one
StepCalls ==
    IF pc \in {"collected", "rt_collected", "rt_waited"} THEN NewCalls ELSE log'

\* the calls of start, stop, collection and transition made on the root by
\* the step are exactly one call of op at time tt, made first
OnlyRootCall(op, tt) ==
    LET calls == CallsOf(StepCalls, Root,
                         {"start", "stop", "collection", "transition"})
    IN /\ Len(calls) = 1
       /\ calls[1].op = op /\ calls[1].t = tt
       /\ StepCalls[1] = calls[1]

\* C2: simulate(t_stop) calls start(0) once; while the root t_next is below
\* t_stop it calls collection(t_next) and then transition(t_next) at the same
\* time, taking the returned value as the new t_next; it finally calls stop
\* once, with the first root t_next that is not below t_stop; no collection
\* and no transition runs at a time at or after t_stop.
C2_SimulateLoop ==
    [][mode = "vt" =>
         /\ pc = "new" => pc' = "loop" /\ OnlyRootCall("start", 0)
         /\ pc = "loop" /\ t_next_loc < t_stop =>
               pc' = "collected" /\ OnlyRootCall("collection", t_next_loc)
         /\ pc = "collected" =>
               /\ pc' = "loop" /\ OnlyRootCall("transition", log[1].t)
               /\ log[1].op = "collection" /\ log[1].node = Root
         /\ pc = "loop" /\ ~(t_next_loc < t_stop) =>
               pc' = "done" /\ OnlyRootCall("stop", t_next_loc)
         /\ pc # "done"
         /\ pc' = "loop" => t_next_loc' = t_next'[Root]
         /\ \A i \in 1..Len(StepCalls) :
               StepCalls[i].op \in {"collection", "transition"} =>
                  StepCalls[i].t < t_stop]_vars

\* simulate has stopped at a finite time that only a transition can have
\* scheduled
C2_Witness ==
    /\ mode = "vt" /\ pc = "done"
    /\ log[1].op = "stop" /\ log[1].node = Root /\ log[1].t = t_next_loc
    /\ MaxSigma < t_next_loc /\ t_next_loc < INFINITY
    /\ t_stop <= t_next_loc

\* the minimum of the t_next of the components of coupled c
MinChildren(c) ==
    LET ts == {t_next[components(c)[i]] : i \in 1..Len(components(c))}
    IN IF ts = {} THEN INFINITY ELSE CHOOSE m \in ts : \A x \in ts : m <= x

\* C3: after start and after every transition the t_next of every coupled
\* model is the minimum of the t_next of its components, INFINITY when it
\* has none.
C3_MinOfChildren ==
    pc \in {"loop", "rt_loop"} =>
        \A c \in Coupleds : t_next[c] = MinChildren(c)

\* a transition of the root in which coupled c did not recurse into its
\* components and keeps an event of its own
C3_Witness ==
    /\ pc \in {"loop", "rt_loop"}
    /\ \E i \in 1..Len(log) :
          /\ log[i].op = "transition" /\ log[i].node = "c"
          /\ ~log[i].inp /\ log[i].t < log[i].arg
    /\ t_next["c"] < INFINITY
    /\ t_next["c"] > t_next[Root]

RECURSIVE Descendants(_)
Descendants(n) ==
    IF n \in Atomics THEN {}
    ELSE LET kids == {components(n)[i] : i \in 1..Len(components(n))}
         IN kids \cup UNION {Descendants(k) : k \in kids}

\* the nodes of the subtree of each node
Subtree == [n \in Nodes |-> {n} \cup Descendants(n)]

\* the call belongs to the collection phase: collection, lambda and the
\* routing of EOCs and ICs
CollectionWork(e) == e.op \in {"collection", "lambda", "eoc", "ic"}

\* C6: in every iteration, at its time t, the lambda of an atomic is called
\* before its delta_int, delta_ext or delta_conf, and all of the collection
\* of a coupled model, the collection of its components and the routing of
\* its EOCs and ICs included, comes before its transition starts; under
\* simulate, under simulate_rt, and with the components visited in any
\* order by the parallel iteration.
C6_LambdaBeforeDelta ==
    /\ \A i, j \in 1..Len(log) :
          /\ log[i].op = "lambda" /\ log[j].op \in DeltaOps
          /\ log[i].node = log[j].node
          => i < j /\ log[i].t = log[j].t
    /\ \A j \in 1..Len(log) :
          log[j].op = "transition" /\ log[j].node \in Coupleds
          => \A i \in j..Len(log) :
                ~(CollectionWork(log[i]) /\ log[i].node \in Subtree[log[j].node])

\* an iteration, both phases with the components of the root visited
\* against their insertion order, in which p has put out and transitioned
\* and the root has routed its couplings
C6_Witness ==
    /\ pc \in {"loop", "rt_loop"} /\ par # {}
    /\ \E i, j \in 1..Len(log) :
          /\ log[i].op = "lambda" /\ log[i].node = "p"
          /\ log[j].op \in DeltaOps /\ log[j].node = "p"
    /\ \E i, j \in 1..Len(log) :
          /\ i < j
          /\ log[i].op = "collection" /\ log[i].node = "c"
          /\ log[j].op = "collection" /\ log[j].node = "g"
    /\ \E i, j \in 1..Len(log) :
          /\ i < j
          /\ log[i].op = "transition" /\ log[i].node = "c"
          /\ log[j].op = "transition" /\ log[j].node = "g"
    /\ \E i \in 1..Len(log) : log[i].op = "ic" /\ log[i].node = Root

CollectionStep ==
    /\ pc \in {"loop", "rt_waited"}
    /\ pc' \in {"collected", "rt_collected"}

\* C8: a call of collection(t) on a node with t < t_next does nothing: no
\* lambda for an atomic; for a coupled no collection of a component, no EOC
\* and no IC; the output bags of the node, all bags below it, and the
\* states and clocks of the subtree stay as they are.
C8_CollectionNoOp ==
    [][CollectionStep =>
         \A i \in 1..Len(StepCalls) :
            LET e == StepCalls[i]
                sub == Subtree[e.node]
            IN e.op = "collection" /\ e.t < e.arg =>
                 /\ \A j \in 1..Len(StepCalls) :
                       j # i => ~(/\ StepCalls[j].node \in sub
                                  /\ StepCalls[j].op \in
                                        {"collection", "lambda", "eoc", "ic"})
                 /\ \A n \in sub :
                       /\ bag'[Out(n)] = bag[Out(n)]
                       /\ n # e.node => bag'[In(n)] = bag[In(n)]
                       /\ t_last'[n] = t_last[n] /\ t_next'[n] = t_next[n]
                       /\ n \in Atomics => state'[n] = state[n]]_vars

\* a collection in which g has put out while coupled c, with an event of its
\* own still to come, was called before its time
C8_Witness ==
    /\ pc \in {"collected", "rt_collected"}
    /\ \E i \in 1..Len(log) :
          /\ log[i].op = "collection" /\ log[i].node = "c"
          /\ log[i].t < log[i].arg /\ log[i].arg < INFINITY
    /\ Len(CallsOf(log, "g", {"lambda"})) = 1
    /\ bag[In("c")] # <<>>

\* C9 as stated: whenever the root t_next is at most t_stop, simulate runs a
\* collection at t_next, also for an event exactly at t_stop.
C9_AtMostStop ==
    [][mode = "vt" /\ pc = "loop" /\ t_next_loc <= t_stop
       /\ t_next_loc < INFINITY
       => pc' = "collected" /\ OnlyRootCall("collection", t_next_loc)]_vars

\* C9: whenever the root t_next is strictly below t_stop, simulate runs a
\* collection at t_next followed by a transition at t_next; an event
\* scheduled exactly at t_stop is not executed: simulate calls stop(t_stop)
\* without a collection or a transition.
C9_StrictlyBelowStop ==
    [][mode = "vt" =>
         /\ pc = "loop" /\ t_next_loc < t_stop =>
               pc' = "collected" /\ OnlyRootCall("collection", t_next_loc)
         /\ pc = "collected" => OnlyRootCall("transition", t_next_loc)
         /\ pc = "loop" /\ t_next_loc = t_stop =>
               /\ pc' = "done" /\ OnlyRootCall("stop", t_stop)
               /\ \A i \in 1..Len(StepCalls) :
                     StepCalls[i].op \notin {"collection", "lambda",
                                             "transition"} \cup DeltaOps]_vars

\* simulate has stopped with an event of the root scheduled exactly at a
\* finite t_stop, after at least one iteration
C9_Witness ==
    /\ mode = "vt" /\ pc = "done"
    /\ t_next_loc = t_stop /\ MaxSigma < t_stop /\ t_stop < INFINITY
    /\ log[1].op = "stop" /\ log[1].t = t_stop

\* the step runs Simulator::start on the root
StartStep == pc = "new"

\* C10: start(t_start) calls start once on every node, with the same
\* t_start; afterwards t_last = t_start at every node, the t_next of an
\* atomic is t_start + ta() of the state its start hook left, and the value
\* each call returns is the new t_next of its node.
C10_StartClocks ==
    [][StartStep =>
         LET t_start == log'[1].t
         IN /\ log'[1].op = "start" /\ log'[1].node = Root
            /\ \A n \in Nodes :
                  LET starts == CallsOf(log', n, {"start"})
                      rets == CallsOf(log', n, {"return"})
                  IN /\ Len(starts) = 1 /\ starts[1].t = t_start
                     /\ t_last'[n] = t_start
                     /\ Len(rets) = 1 /\ rets[1].arg = t_next'[n]
                     /\ n \in Atomics =>
                           /\ Len(CallsOf(log', n, {"hook_start"})) = 1
                           /\ t_next'[n] = Add(t_start, state'[n].sigma)]_vars

\* the hierarchy has been started with different finite time advances of the
\* two atomics
C10_Witness ==
    /\ pc \in {"loop", "rt_loop"}
    /\ Len(log) > 0 /\ log[1].op = "start"
    /\ t_next["g"] < t_next["p"] /\ t_next["p"] < INFINITY
    /\ t_next[Root] = t_next["g"]

\* the step runs Simulator::stop on the root
StopStep == pc \in {"loop", "rt_loop"} /\ pc' = "done"

\* C11: stop(t_stop) calls stop once on every node; afterwards every node has
\* t_last = t_stop and t_next = INFINITY, and the stop hook of every atomic
\* has run exactly once.
C11_StopFinalises ==
    [][StopStep =>
         LET tstop == log'[1].t
         IN /\ log'[1].op = "stop" /\ log'[1].node = Root
            /\ \A n \in Nodes :
                  /\ Len(CallsOf(log', n, {"stop"})) = 1
                  /\ CallsOf(log', n, {"stop"})[1].t = tstop
                  /\ t_last'[n] = tstop /\ t_next'[n] = INFINITY
                  /\ Len(CallsOf(log', n, {"hook_stop"})) =
                        IF n \in Atomics THEN 1 ELSE 0]_vars

\* simulate_rt has stopped a hierarchy whose root still had an event
\* scheduled after the stop time
C11_Witness ==
    /\ mode = "rt" /\ pc = "done"
    /\ t_stop < t_next_loc /\ t_next_loc < INFINITY
    /\ \A n \in Nodes : t_last[n] = t_stop /\ t_next[n] = INFINITY
    /\ Len(CallsOf(log, "p", {"hook_stop"})) = 1

\* the output bag of the root after collection(tt) run by the sequential
\* scheduler (no par_* feature) from the current state
SequentialOutput(tt) ==
    Sim_collection(Cur, Root, tt, Sequential).bag[Out(Root)]

\* C14: every collection leaves in the output port of the root the messages
\* the sequential scheduler leaves there, in the same order, whatever par_*
\* features are compiled in (par_couplings included).
C14_SameAsSequential ==
    [][CollectionStep =>
         bag'[Out(Root)] =
             SequentialOutput(IF mode = "vt" THEN t_next_loc ELSE t)]_vars

\* wait_event has returned a time before the one it was called with and
\* the input ports of the root are empty
SpuriousWakeup ==
    /\ mode = "rt" /\ pc = "rt_waited"
    /\ log[1].t < log[1].arg
    /\ is_input_empty(Cur, Root)

\* the driver has gone back to the head of its loop straight from wait_event
Skipped ==
    /\ mode = "rt" /\ pc = "rt_loop"
    /\ Len(log) = 1 /\ log[1].op = "wait_event"

\* C15: after a spurious wake-up (wait_event returns a time before the one
\* requested and the root has no input) simulate_rt makes no call of
\* collection, transition or the output handler, leaves clocks, states and
\* bags as they are, keeps its next event time, and calls wait_event again
\* with the same requested time.
C15_SpuriousWakeup ==
    [][/\ SpuriousWakeup =>
            /\ pc' = "rt_loop"
            /\ UNCHANGED <<t, t_next_loc, t_last, t_next, state, bag, log>>
       /\ Skipped /\ log[1].t < log[1].arg =>
            /\ pc' = "rt_waited"
            /\ Len(log') = 1 /\ log'[1].op = "wait_event"
            /\ log'[1].arg = log[1].arg
            /\ UNCHANGED <<t_next_loc, t_last, t_next, state>>]_vars

\* a spurious wake-up at a time after 0 has been skipped while the model has
\* an event scheduled
C15_Witness ==
    /\ Skipped
    /\ log[1].t < log[1].arg
    /\ log[1].t > 0
    /\ t_next_loc < INFINITY

----------------------------------------------------------------------------
(* Termination of simulate_rt: the driver alone, with a finite t_stop, a   *)
(* waiter that is on time and a model that schedules finitely many events. *)

InitRt ==
    /\ mode = "rt"
    /\ pc = "new"
    /\ t_stop \in 0..MaxTime
    /\ t = 0
    /\ t_next_loc = 0
    /\ t_last = [n \in Nodes |-> 0]
    /\ t_next = [n \in Nodes |-> INFINITY]
    /\ state = [a \in Atomics |-> Passive]
    /\ bag = [p \in Ports |-> <<>>]
    /\ log = <<>>
    /\ par = {}
    /\ behaviour = AnyBehaviour
    /\ hasher = PortList
    /\ par_eics = NoVectors
    /\ par_xxcs = NoVectors
    /\ waiter = NewWaiter(None)
    /\ builder = NewCoupled

\* the waiter returns the requested time when no input arrives; when input
\* makes it return early the wall clock has advanced since its last return
WaiterOnTime ==
    /\ ~log'[1].inp => t' = log'[1].arg
    /\ t' < log'[1].arg => t' > t

\* the transition functions that run leave a positive time advance, so that
\* finitely many events are scheduled before t_stop
PositiveAdvance == \A a \in Touched(NewCalls) : state'[a].sigma > 0

NextRt ==
    \/ SimulateRtStart
    \/ SimulateRtWait /\ WaiterOnTime
    \/ SimulateRtCollection
    \/ SimulateRtSkip
    \/ SimulateRtTransition /\ PositiveAdvance
    \/ SimulateRtStop

\* the statement at which the driver stands can be executed: ENABLED NextRt
\* written out, action by action
CanStart ==
    \E ord \in Orders("par_start"), ch \in Choices :
        Bounded(Sim_start(Fresh, Root, 0, ch, ord))

CanWait ==
    LET t_until == Min(t_next_loc, t_stop)
    IN \E tw \in WaitResults(t, t_until), inject \in BOOLEAN :
          /\ ~inject => tw = t_until
          /\ tw < t_until => tw > t

CanTransition ==
    \E ord \in Orders("par_transition"), ch \in DeltaChoices(t) :
        LET s == Sim_transition(Cur, Root, t, ch, ord)
        IN /\ Bounded(s)
           /\ \A a \in Touched(SubSeq(s.log, Len(log) + 1, Len(s.log))) :
                 s.state[a].sigma > 0

CanStop ==
    \E ord \in Orders("par_stop"), ch \in StopChoices :
        Bounded(Sim_stop(Fresh, Root, t_stop, ch, ord))

CanStep ==
    /\ mode = "rt"
    /\ CASE pc = "new" -> CanStart
         [] pc = "rt_loop" -> IF t < t_stop THEN CanWait ELSE CanStop
         [] pc = "rt_waited" ->
              \/ t >= t_next_loc
              \/ is_input_empty(Cur, Root)
              \/ CanTransition
         [] pc = "rt_collected" -> CanTransition
         [] OTHER -> FALSE

\* simulate_rt is one sequential loop: until it has returned, the thread
\* that runs it executes its next statement
DriverStep ==
    /\ pc # "done"
    /\ pc' \in {"rt_loop", "rt_waited", "rt_collected", "done"}
    /\ pc' # pc

SpecRtFair == InitRt /\ [][NextRt]_vars /\ WF_pc(DriverStep)

\* stop has been called once on the root, at t_stop, and the driver is done
Stopped ==
    /\ pc = "done"
    /\ Len(CallsOf(log, Root, {"stop"})) = 1
    /\ log[1].op = "stop" /\ log[1].node = Root /\ log[1].t = t_stop

\* C16: with a finite t_stop, a waiter that returns the requested time when
\* no input arrives and a model that schedules finitely many events before
\* t_stop, simulate_rt is never stuck before it has returned, eventually
\* leaves its loop, calls stop(t_stop) once and makes no call after it.
C16_RtTerminates == [](pc # "done" => CanStep) /\ <>[]Stopped

\* the driver has stopped at a t_stop after 0, which its loop has reached,
\* with an atomic that was still active
C16_Witness ==
    /\ Stopped
    /\ t_stop > 0 /\ t = t_stop
    /\ state["p"].sigma = MaxSigma

----------------------------------------------------------------------------
(* The closure of rt::wait_event under any sequence of calls with          *)
(* non-decreasing requested times and any wake-up times.                   *)

InitWaiter ==
    /\ mode = "unit"
    /\ pc = "waiter"
    /\ t_stop = INFINITY
    /\ t = 0
    /\ t_next_loc = 0
    /\ t_last = [n \in Nodes |-> 0]
    /\ t_next = [n \in Nodes |-> INFINITY]
    /\ state = [a \in Atomics |-> Passive]
    /\ bag = [p \in Ports |-> <<>>]
    /\ log = <<>>
    /\ par = {}
    /\ behaviour = AnyBehaviour
    /\ hasher = PortList
    /\ par_eics = NoVectors
    /\ par_xxcs = NoVectors
    /\ waiter \in {NewWaiter(j) : j \in {None} \cup (0..MaxJitter)}
    /\ builder = NewCoupled

\* the requested times: any time from the last returned one on
Requests(w) ==
    {v \in 0..(VtPerTick * MaxWall) : v >= w.last_vt} \cup {INFINITY}

\* one call of the closure; input_handler returns at any later tick
WaitEventCall ==
    /\ pc = "waiter"
    /\ waiter.status # "panicked"
    /\ \E next_vt \in Requests(waiter), wake \in waiter.now..MaxWall :
         waiter' = wait_event(waiter, next_vt, wake)
    /\ UNCHANGED <<mode, pc, t_stop, t, t_next_loc, t_last, t_next, state, bag,
                   log, par, behaviour, hasher, builder, par_eics, par_xxcs>>

NextWaiter == WaitEventCall

SpecWaiter == InitWaiter /\ [][NextWaiter]_vars

\* C17: the closure never returns a virtual time after the requested one.
C17_ReturnAtMostRequested ==
    waiter.status = "returned" => waiter.ret <= waiter.next_vt

\* C18: a call of the closure panics exactly when max_jitter is Some(m) and
\* the wake-up is more than m after the wall-clock instant scheduled for the
\* requested time; with max_jitter = None, and after an early wake-up, it
\* returns.
C18_JitterPolicy ==
    waiter.status \in {"returned", "panicked"} =>
        (waiter.status = "panicked" <=>
            /\ waiter.max_jitter # None
            /\ waiter.next_rt # None
            /\ waiter.now > waiter.next_rt + waiter.max_jitter)

\* the closure has returned at least once and then panicked, with the
\* largest max_jitter
C18_Witness ==
    /\ waiter.status = "panicked"
    /\ waiter.max_jitter = MaxJitter
    /\ waiter.last_vt > 0
    /\ waiter.now = waiter.next_rt + waiter.max_jitter + 1

----------------------------------------------------------------------------
(* The input queue of the asynchronous driver: InputQueue::inject_timeout  *)
(* called again and again on the root.                                     *)

InitInject ==
    /\ mode = "unit"
    /\ pc = "inject"
    /\ t_stop = INFINITY
    /\ t = 0
    /\ t_next_loc = 0
    /\ t_last = [n \in Nodes |-> 0]
    /\ t_next = [n \in Nodes |-> INFINITY]
    /\ state = [a \in Atomics |-> Passive]
    /\ bag = [p \in Ports |-> <<>>]
    /\ log = <<>>
    /\ par = {}
    /\ behaviour = AnyBehaviour
    /\ hasher = PortList
    /\ par_eics = NoVectors
    /\ par_xxcs = NoVectors
    /\ waiter = NewWaiter(None)
    /\ builder = NewCoupled

\* InputQueue::inject_timeout: the timeout expires, or an event is received
\* and injected into the root; log holds what was received, the result of
\* inject and the level of the tracing record
InjectTimeout ==
    /\ pc = "inject"
    /\ Len(log) < MaxEvents
    /\ \/ /\ log' = Append(log, [received |-> <<>>, res |-> "none",
                                  level |-> "debug"])
          /\ bag' = bag
       \/ \E event \in Events :
            LET r == Component_inject(bag, Root, event)
            IN /\ bag' = r.bag
               /\ log' = Append(log, [received |-> event, res |-> r.res,
                                      level |-> IF r.res = "Ok" THEN "info"
                                                ELSE "error"])
    /\ UNCHANGED <<fixed, mode, pc, t_stop, t, t_next_loc, t_last, t_next,
                   state>>

NextInject == InjectTimeout

SpecInject == InitInject /\ [][NextInject]_vars

\* C19: an event received for a name that is not an input port of the root
\* gives UnknownPort, one for an input port whose text does not parse gives
\* ValueParseError; in both cases every bag stays as it is and the queue
\* writes an error record; the call returns and the queue goes on receiving.
C19_InjectionErrors ==
    [][LET e == log'[Len(log')]
           ev == e.received
       IN ev # <<>> =>
            /\ (ev[1] # "in") <=> (e.res = "UnknownPort")
            /\ (ev[1] = "in" /\ ev[2] = "?") <=> (e.res = "ValueParseError")
            /\ e.res # "Ok" => bag' = bag /\ e.level = "error"
            /\ e.res = "Ok" => bag'[In(Root)] = Append(bag[In(Root)], ev[2])
            /\ pc' = "inject"]_vars

\* both errors have been logged and a later event has been injected
C19_Witness ==
    /\ Len(log) = 3
    /\ log[1].res = "UnknownPort"
    /\ log[2].res = "ValueParseError"
    /\ log[3].res = "Ok"
    /\ bag[In(Root)] = <<"x">>

----------------------------------------------------------------------------
(* Any sequence of add_eic, add_ic and add_eoc calls on the coupled model  *)
(* under construction, up to the first call that panics.                   *)

InitBuilder ==
    /\ mode = "unit"
    /\ pc = "building"
    /\ t_stop = INFINITY
    /\ t = 0
    /\ t_next_loc = 0
    /\ t_last = [n \in Nodes |-> 0]
    /\ t_next = [n \in Nodes |-> INFINITY]
    /\ state = [a \in Atomics |-> Passive]
    /\ bag = [p \in Ports |-> <<>>]
    /\ log = <<>>
    /\ par = {}
    /\ behaviour = AnyBehaviour
    /\ hasher = PortList
    /\ par_eics = NoVectors
    /\ par_xxcs = NoVectors
    /\ waiter = NewWaiter(None)
    /\ builder = Declared

\* no call has panicked (a panic ends the construction) and the coupled
\* model holds fewer than MaxCouplings couplings
Building ==
    /\ pc = "building"
    /\ builder.last \in {"new", "ok"}
    /\ Len(builder.vecs["eic"]) + Len(builder.vecs["ic"])
         + Len(builder.vecs["eoc"]) < MaxCouplings

Unbuilt == <<mode, pc, t_stop, t, t_next_loc, t_last, t_next, state, bag, log,
             par, behaviour, hasher, waiter, par_eics, par_xxcs>>

AddEic ==
    /\ Building
    /\ \E port_from \in PortIds, component_to \in CompNames, port_to \in PortIds :
         builder' = [add_eic(builder, port_from, component_to, port_to)
                        EXCEPT !.call = <<"eic", <<"top", "in", port_from>>,
                                          <<component_to, "in", port_to>> >>]
    /\ UNCHANGED Unbuilt

AddIc ==
    /\ Building
    /\ \E component_from \in CompNames, port_from \in PortIds,
          component_to \in CompNames, port_to \in PortIds :
         builder' = [add_ic(builder, component_from, port_from, component_to,
                            port_to)
                        EXCEPT !.call = <<"ic", <<component_from, "out", port_from>>,
                                          <<component_to, "in", port_to>> >>]
    /\ UNCHANGED Unbuilt

AddEoc ==
    /\ Building
    /\ \E component_from \in CompNames, port_from \in PortIds, port_to \in PortIds :
         builder' = [add_eoc(builder, component_from, port_from, port_to)
                        EXCEPT !.call = <<"eoc", <<component_from, "out", port_from>>,
                                          <<"top", "out", port_to>> >>]
    /\ UNCHANGED Unbuilt

NextBuilder == AddEic \/ AddIc \/ AddEoc

SpecBuilder == InitBuilder /\ [][NextBuilder]_vars

\* a port without its type: <<owner, direction, name>>
PortId(p) == <<p[1], p[2], p[3]>>

\* the couplings of a vector, as pairs (port_to, port_from) of typeless ports
Held(b, kind) ==
    {<<PortId(b.vecs[kind][i][1]), PortId(b.vecs[kind][i][2])>> :
        i \in 1..Len(b.vecs[kind])}

\* C20: no vector of couplings ever holds a pair (source port, destination
\* port) twice, in no map of couplings and no vector across the three kinds;
\* a call that adds a coupling the model already holds fails with "coupling
\* already exists" and leaves the maps, the vectors and n_eics, n_ics,
\* n_eocs as they were.
C20_NoDoubleCoupling ==
    [][LET kind == builder'.call[1]
           pair == <<builder'.call[3], builder'.call[2]>>
       IN /\ \A k \in CouplingKinds :
               /\ Cardinality(Held(builder', k)) = Len(builder'.vecs[k])
               /\ n_couplings(builder', k) = Len(builder'.vecs[k])
          /\ \A k1, k2 \in CouplingKinds :
               k1 # k2 => Held(builder', k1) \cap Held(builder', k2) = {}
          /\ pair \in Held(builder, kind) =>
               /\ builder'.last = "coupling already exists"
               /\ builder'.maps = builder.maps
               /\ builder'.vecs = builder.vecs
               /\ \A k \in CouplingKinds :
                     n_couplings(builder', k) = n_couplings(builder, k)]_vars

\* a coupling the model holds has been added again and refused
C20_Witness ==
    /\ builder.last = "coupling already exists"
    /\ <<builder.call[3], builder.call[2]>> \in Held(builder, builder.call[1])
    /\ Len(builder.vecs[builder.call[1]]) > 1

\* the ports of the coupled itself and of its registered subcomponents
OwnInputs(b) == {b.component.in_ports[i] : i \in 1..Len(b.component.in_ports)}

OwnOutputs(b) == {b.component.out_ports[i] : i \in 1..Len(b.component.out_ports)}

SubInputs(b) ==
    UNION {{component_of(b.components[n]).in_ports[i] :
                i \in 1..Len(component_of(b.components[n]).in_ports)} :
              n \in 1..Len(b.components)}

SubOutputs(b) ==
    UNION {{component_of(b.components[n]).out_ports[i] :
                i \in 1..Len(component_of(b.components[n]).out_ports)} :
              n \in 1..Len(b.components)}

\* the ports the directories hold under the name <<owner, direction, name>>
Named(b, id) ==
    {p \in OwnInputs(b) \cup OwnOutputs(b) \cup SubInputs(b) \cup SubOutputs(b) :
        PortId(p) = id}

\* the call left the maps and the vectors of couplings as they were
TablesUnchanged ==
    /\ builder'.maps = builder.maps
    /\ builder'.vecs = builder.vecs
    /\ \A k \in CouplingKinds : n_couplings(builder', k) = n_couplings(builder, k)

\* C21: a call that names two existing ports of different element types
\* fails with "ports are not compatible" and leaves the maps and vectors of
\* couplings unchanged; every coupling of the vectors collection and
\* transition iterate over joins two ports of the same element type.
C21_TypeSafeRouting ==
    [][/\ \A k \in CouplingKinds : \A i \in 1..Len(builder'.vecs[k]) :
            builder'.vecs[k][i][1][4] = builder'.vecs[k][i][2][4]
       /\ (\E p \in Named(builder, builder'.call[2]),
              q \in Named(builder, builder'.call[3]) : p[4] # q[4]) =>
            /\ builder'.last = "ports are not compatible"
            /\ TablesUnchanged]_vars

\* couplings are held and a call has named two ports of different types
C21_Witness ==
    /\ builder.last = "ports are not compatible"
    /\ builder.call[1] = "eic"
    /\ \E k \in CouplingKinds : Len(builder.vecs[k]) > 1

NotFound ==
    {"port_from does not exist", "component_from does not exist",
     "component_to does not exist", "port_to does not exist"}

\* C22: a call of add_eic, add_ic or add_eoc that names a source port, a
\* subcomponent or a destination port the directories do not hold fails
\* ("... does not exist") and leaves the maps and vectors of couplings
\* unchanged.
C22_UnknownEndpoint ==
    [][(Named(builder, builder'.call[2]) = {}
          \/ Named(builder, builder'.call[3]) = {}) =>
            /\ builder'.last \in NotFound
            /\ TablesUnchanged]_vars

\* add_ic has failed on a subcomponent that is not registered, after
\* couplings were added
C22_Witness ==
    /\ builder.last = "component_to does not exist"
    /\ builder.call[1] = "ic"
    /\ Named(builder, builder.call[2]) # {}
    /\ Len(builder.vecs["ic"]) > 0
    /\ Len(builder.vecs["eoc"]) > 0

\* C24: every EIC goes from an input of the coupled to an input of a
\* registered subcomponent, every IC from an output of a registered
\* subcomponent to an input of a registered subcomponent, every EOC from an
\* output of a registered subcomponent to an output of the coupled.
C24_CouplingShapes ==
    /\ \A i \in 1..Len(builder.vecs["eic"]) :
          /\ builder.vecs["eic"][i][2] \in OwnInputs(builder)
          /\ builder.vecs["eic"][i][1] \in SubInputs(builder)
    /\ \A i \in 1..Len(builder.vecs["ic"]) :
          /\ builder.vecs["ic"][i][2] \in SubOutputs(builder)
          /\ builder.vecs["ic"][i][1] \in SubInputs(builder)
    /\ \A i \in 1..Len(builder.vecs["eoc"]) :
          /\ builder.vecs["eoc"][i][2] \in SubOutputs(builder)
          /\ builder.vecs["eoc"][i][1] \in OwnOutputs(builder)

\* one coupling of each kind is held, the IC from "a" to "a" itself
C24_Witness ==
    /\ Len(builder.vecs["eic"]) = 1
    /\ Len(builder.vecs["eoc"]) = 1
    /\ <<<<"a", "in", "c">>, <<"a", "out", "c">> >> \in Held(builder, "ic")

----------------------------------------------------------------------------
(* Any sequence of add_in_port, add_out_port and add_component calls on a   *)
(* new coupled model, up to the first call that panics.                     *)

DeclNames == {"x", "y"}

\* the components handed to add_component: two of them bear the name "x"
DeclComps ==
    {NewComponent("x"), NewComponent("y"),
     Component_add_in_port(NewComponent("x"), "x", "i32")}

InitDeclare ==
    /\ mode = "unit"
    /\ pc = "declaring"
    /\ t_stop = INFINITY
    /\ t = 0
    /\ t_next_loc = 0
    /\ t_last = [n \in Nodes |-> 0]
    /\ t_next = [n \in Nodes |-> INFINITY]
    /\ state = [a \in Atomics |-> Passive]
    /\ bag = [p \in Ports |-> <<>>]
    /\ log = <<>>
    /\ par = {}
    /\ behaviour = AnyBehaviour
    /\ hasher = PortList
    /\ par_eics = NoVectors
    /\ par_xxcs = NoVectors
    /\ waiter = NewWaiter(None)
    /\ builder = NewCoupled

\* no call has panicked and fewer than MaxDecls declarations were made
Declaring ==
    /\ pc = "declaring"
    /\ builder.last \in {"new", "ok"}
    /\ Len(builder.component.in_ports) + Len(builder.component.out_ports)
         + Len(builder.components) < MaxDecls

AddInPort ==
    /\ Declaring
    /\ \E name \in DeclNames, type \in PortTypes :
         builder' = [add_in_port(builder, name, type)
                        EXCEPT !.call = <<"in", name>>]
    /\ UNCHANGED Unbuilt

AddOutPort ==
    /\ Declaring
    /\ \E name \in DeclNames, type \in PortTypes :
         builder' = [add_out_port(builder, name, type)
                        EXCEPT !.call = <<"out", name>>]
    /\ UNCHANGED Unbuilt

AddComponent ==
    /\ Declaring
    /\ \E component \in DeclComps :
         builder' = [add_component(builder, component)
                        EXCEPT !.call = <<"component", component.name>>]
    /\ UNCHANGED Unbuilt

NextDeclare == AddInPort \/ AddOutPort \/ AddComponent

SpecDeclare == InitDeclare /\ [][NextDeclare]_vars

\* the names held by a vector of ports or of components
PortNamesOf(ports) == {ports[i][3] : i \in 1..Len(ports)}

CompNamesOf(comps) == {component_of(comps[i]).name : i \in 1..Len(comps)}

\* the names in use for the kind of thing the call declares
UsedNames(b, what) ==
    CASE what = "in"  -> PortNamesOf(b.component.in_ports)
      [] what = "out" -> PortNamesOf(b.component.out_ports)
      [] OTHER        -> CompNamesOf(b.components)

\* the port directories and the list of subcomponents of a coupled
Directory(b) ==
    <<b.component.in_map, b.component.in_ports, b.component.out_map,
      b.component.out_ports, b.comps_map, b.components>>

\* C23: the input ports of a component bear different names, so do its
\* output ports and so do the subcomponents of a coupled (one name may serve
\* an input and an output port); add_in_port, add_out_port or add_component
\* with a name in use fails and leaves the port directories and the list of
\* subcomponents as they were.
C23_UniqueNames ==
    [][/\ Cardinality(PortNamesOf(builder'.component.in_ports))
            = Len(builder'.component.in_ports)
       /\ Cardinality(PortNamesOf(builder'.component.out_ports))
            = Len(builder'.component.out_ports)
       /\ Cardinality(CompNamesOf(builder'.components)) = Len(builder'.components)
       /\ Cardinality(builder'.component.in_map) = Len(builder'.component.in_ports)
       /\ Cardinality(builder'.component.out_map) = Len(builder'.component.out_ports)
       /\ Cardinality(builder'.comps_map) = Len(builder'.components)
       /\ IF builder'.call[2] \in UsedNames(builder, builder'.call[1])
          THEN /\ builder'.last \notin {"new", "ok"}
               /\ Directory(builder') = Directory(builder)
          ELSE /\ builder'.last = "ok"
               /\ builder'.call[2] \in UsedNames(builder', builder'.call[1])]_vars

\* the name "x" serves an input and an output port, and a second input port
\* "x" has been refused
C23_Witness ==
    /\ builder.call = <<"in", "x">>
    /\ builder.last = "component already contains input port"
    /\ "x" \in PortNamesOf(builder.component.in_ports)
    /\ "x" \in PortNamesOf(builder.component.out_ports)

----------------------------------------------------------------------------
(* An atomic with the default delta_conf, called at its t_next with input.  *)

InitConf ==
    /\ mode = "unit" /\ pc = "new"
    /\ t_stop = INFINITY /\ t = 0 /\ t_next_loc = 0
    /\ par = {}
    /\ behaviour \in DefaultConf
    /\ hasher = PortList
    /\ par_eics = NoVectors
    /\ par_xxcs = NoVectors
    /\ waiter = NewWaiter(None)
    /\ builder = NewCoupled
    /\ \E tl \in 0..MaxTime, st \in AtomicStates, b \in InputBags :
          /\ st.sigma # INFINITY /\ tl + st.sigma <= MaxTime
          /\ t_last = [n \in Nodes |-> IF n = "p" THEN tl ELSE 0]
          /\ t_next = [n \in Nodes |-> IF n = "p" THEN tl + st.sigma
                                       ELSE INFINITY]
          /\ state = [a \in Atomics |-> IF a = "p" THEN st ELSE Passive]
          /\ bag = [q \in Ports |-> IF q = In("p") THEN b ELSE <<>>]
    /\ log = <<>>

\* Simulator::transition(t_next) called on the atomic
ConfluentTransition ==
    /\ mode = "unit" /\ pc = "new"
    /\ \E s \in {Atomic_transition(Fresh, "p", t_next["p"], state)} : Install(s)
    /\ pc' = "transitioned"
    /\ UNCHANGED <<fixed, mode, t_stop, t, t_next_loc>>

NextConf == ConfluentTransition

SpecConf == InitConf /\ [][NextConf]_vars

\* C12: the default delta_conf is delta_int followed by delta_ext(0) on the
\* state delta_int produced, with the input bag transition was entered with;
\* the input bag is cleared once, after delta_conf has returned.
C12_DefaultConfluent ==
    [][mode = "unit" /\ pc = "new" =>
         LET st_int == behaviour.int[state["p"]]
             st_ext == behaviour.ext[<<st_int, 0, bag[In("p")]>>]
             calls == CallsOf(log', "p", DeltaOps \cup {"clear_input"})
         IN /\ state'["p"] = st_ext
            /\ Len(calls) = 4
            /\ calls[1].op = "delta_conf"
            /\ calls[2].op = "delta_int"
            /\ calls[3].op = "delta_ext" /\ calls[3].arg = 0 /\ calls[3].inp
            /\ calls[4].op = "clear_input"
            /\ bag'[In("p")] = <<>>
            /\ t_last'["p"] = t_next["p"]
            /\ t_next'["p"] = Add(t_next["p"], st_ext.sigma)]_vars

\* a confluent transition whose result depends on the order of the two calls
\* and on the input bag
C12_Witness ==
    /\ mode = "unit" /\ pc = "transitioned"
    /\ behaviour.int = [st \in AtomicStates |-> [sigma |-> INFINITY, out |-> FALSE]]
    /\ state["p"] = [sigma |-> 1, out |-> TRUE]
    /\ bag[In("p")] = <<>>

\* C13: under simulate, with any t_stop, an atomic whose ta() is INFINITY and
\* which receives no input runs no transition function and no lambda, and
\* keeps its state and its t_last, in every collection and every transition
\* before stop.
C13_PassiveStays ==
    [][mode = "vt" /\ pc \in {"loop", "collected"} /\ pc' # "done" =>
         \A a \in Atomics :
            /\ state[a].sigma = INFINITY
            /\ \A i \in 1..Len(StepCalls) :
                  StepCalls[i].op = "transition" /\ StepCalls[i].node = a
                  => ~StepCalls[i].inp
            => /\ CallsOf(StepCalls, a, DeltaOps \cup {"lambda"}) = <<>>
               /\ state'[a] = state[a]
               /\ t_last'[a] = t_last[a]
               /\ t_next[a] = INFINITY /\ t_next'[a] = INFINITY]_vars

\* a run of simulate without stop time in which p has transitioned after time
\* 0 while g, passive and called without input, is as start left it
C13_Witness ==
    /\ mode = "vt" /\ pc = "loop" /\ t_stop = INFINITY
    /\ state["g"].sigma = INFINITY /\ t_last["g"] = 0
    /\ t_last["p"] > 0
    /\ \E i \in 1..Len(log) :
          log[i].op = "transition" /\ log[i].node = "g" /\ ~log[i].inp
    /\ CallsOf(log, "p", {"delta_int"}) # <<>>

----------------------------------------------------------------------------
(* RootCoordinator::simulate on the models of the library: the model is    *)
(* the one held by builder, its atomics run their own lambda and delta     *)
(* functions.                                                              *)

InstallModel(s) ==
    /\ t_last' = s.t_last
    /\ t_next' = s.t_next
    /\ state' = s.state
    /\ bag' = s.bag
    /\ log' = s.log

\* RootCoordinator::new(model) for each of the models
InitModel(models, stops) ==
    /\ mode = "vt"
    /\ pc = "built"
    /\ t_stop \in stops
    /\ t = 0
    /\ t_next_loc = 0
    /\ builder \in models
    /\ t_last = [n \in ModelNodes |-> 0]
    /\ t_next = [n \in ModelNodes |-> INFINITY]
    /\ state = [a \in ModelAtomics |-> Sim_of(a).state]
    /\ bag = [p \in ModelPorts |-> <<>>]
    /\ log = <<>>
    /\ par = {}
    /\ behaviour = DefaultConf
    /\ hasher = PortList
    /\ par_eics = NoVectors
    /\ par_xxcs = NoVectors
    /\ waiter = NewWaiter(None)

\* simulate: let mut t_next = self.start(0.);
ModelStart ==
    /\ mode = "vt" /\ pc = "built"
    /\ \E s \in {Sim_start(Fresh, ModelRoot, 0, state, ModelIteration)} :
          InstallModel(s) /\ t_next_loc' = s.ret
    /\ pc' = "running"
    /\ UNCHANGED <<fixed, mode, t_stop, t>>

\* simulate: while t_next < t_stop { self.collection(t_next);
ModelCollection ==
    /\ mode = "vt" /\ pc = "running"
    /\ t_next_loc < t_stop
    /\ \E s \in {Sim_collection(Fresh, ModelRoot, t_next_loc, ModelIteration)} :
          InstallModel(s)
    /\ pc' = "lambdas"
    /\ UNCHANGED <<fixed, mode, t_stop, t, t_next_loc>>

\* simulate: t_next = self.transition(t_next); }
ModelTransition ==
    /\ mode = "vt" /\ pc = "lambdas"
    /\ \E s \in {Sim_transition(Cur, ModelRoot, t_next_loc, state,
                                ModelIteration)} :
          InstallModel(s) /\ t_next_loc' = s.ret /\ t' = t_next_loc
    /\ pc' = "running"
    /\ UNCHANGED <<fixed, mode, t_stop>>

\* simulate: self.stop(t_next);
ModelStop ==
    /\ mode = "vt" /\ pc = "running"
    /\ ~(t_next_loc < t_stop)
    /\ \E s \in {Sim_stop(Fresh, ModelRoot, t_next_loc, state, ModelIteration)} :
          InstallModel(s)
    /\ pc' = "stopped"
    /\ UNCHANGED <<fixed, mode, t_stop, t, t_next_loc>>

NextModel == ModelStart \/ ModelCollection \/ ModelTransition \/ ModelStop

----------------------------------------------------------------------------
(* The GPT and EFP models of the library, each alone and side by side as   *)
(* the two components of one coupled model.                                *)

\* examples/gpt_efp.rs: period, time, observation
ReqPeriod == 3
ProcTime == 1
ObsTime == 50

GptAndEfp ==
    add_component(
        add_component(Coupled_new("both"),
                      Gpt_new("gpt", ReqPeriod, ProcTime, ObsTime)),
        Efp_new("efp", ReqPeriod, ProcTime, ObsTime))

GptModels == {Gpt_new("gpt", ReqPeriod, ProcTime, ObsTime),
              Efp_new("efp", ReqPeriod, ProcTime, ObsTime),
              GptAndEfp}

\* stop times after the observation time
GptStops == {ObsTime + k : k \in 1..MaxSlack} \cup {INFINITY}

InitGpt == InitModel(GptModels, GptStops)

SpecGpt == InitGpt /\ [][NextModel]_vars

\* the times of the calls of lambda on atomic a in the current iteration
LambdaTimes(a) ==
    {log[i].t : i \in {j \in 1..Len(log) :
                          log[j].op = "lambda" /\ log[j].node = a}}

\* the transition of the iteration at time tt has returned
Transitioned(tt) ==
    /\ pc = "running"
    /\ log # <<>>
    /\ log[1].op = "collection"
    /\ log[Len(log)].t = tt

\* whether the current state is one of the run of model name alone
Running(name) == mode = "vt" /\ builder.component.name = name

\* the event times of scenario S1
GenTimes == {3 * k : k \in 0..16}
ProcTimes == {3 * k + 1 : k \in 0..16}
S1Times == GenTimes \cup ProcTimes \cup {50}

\* the first event time of S1 after time tt
S1After(tt) ==
    LET later == {x \in S1Times : x > tt}
    IN IF later = {} THEN INFINITY
       ELSE CHOOSE x \in later : \A y \in later : x <= y

\* C25: in the GPT model with period 3, processing time 1 and observation
\* time 50, simulated until a stop time after 50, the iterations run exactly
\* at the times 0, 1, 3, 4, ..., 48, 49, 50; the generator emits exactly at
\* 0, 3, ..., 48 (17 jobs, numbered from 0, each one in the input bag of the
\* transducer and of the processor in the same iteration), the processor
\* emits exactly at 1, 4, ..., 49 the job received one time unit before, the
\* transducer emits its stop at 50 and the transition at 50 leaves the
\* generator passive and the root with t_next = INFINITY, which is how the
\* simulation ends
C25_GptTrace ==
    Running("gpt") =>
      LET gen == "gpt/generator"
          proc == "gpt/processor"
          trans == "gpt/transducer"
      IN /\ pc = "running" /\ log[1].op = "start" => t_next_loc = 0
         /\ pc = "lambdas" =>
              /\ t_next_loc \in S1Times
              /\ LambdaTimes(gen) =
                   IF t_next_loc \in GenTimes THEN {t_next_loc} ELSE {}
              /\ LambdaTimes(proc) =
                   IF t_next_loc \in ProcTimes THEN {t_next_loc} ELSE {}
              /\ LambdaTimes(trans) =
                   IF t_next_loc = 50 THEN {t_next_loc} ELSE {}
              /\ bag[<<gen, "out", "output_req">>] =
                   IF t_next_loc \in GenTimes THEN <<t_next_loc \div 3>>
                   ELSE <<>>
              /\ bag[<<trans, "in", "input_req">>] =
                   bag[<<gen, "out", "output_req">>]
              /\ bag[<<proc, "in", "input_req">>] =
                   bag[<<gen, "out", "output_req">>]
              /\ bag[<<proc, "out", "output_res">>] =
                   IF t_next_loc \in ProcTimes
                   THEN << <<(t_next_loc - 1) \div 3, 1>> >> ELSE <<>>
              /\ bag[<<trans, "in", "input_res">>] =
                   bag[<<proc, "out", "output_res">>]
              /\ bag[<<gen, "in", "input_stop">>] =
                   IF t_next_loc = 50 THEN <<TRUE>> ELSE <<>>
         /\ \A tt \in S1Times : Transitioned(tt) =>
              /\ t_next_loc = S1After(tt)
              /\ t_next["gpt"] = t_next_loc
              /\ state[gen].count = Cardinality({x \in GenTimes : x <= tt})
              /\ tt = 50 => state[gen].sigma = INFINITY
         /\ pc = "stopped" =>
              /\ state[gen].count = 17
              /\ state[gen].sigma = INFINITY
              /\ t_next_loc = INFINITY
              /\ t_next["gpt"] = INFINITY

\* the run of the GPT model has ended after the 17 jobs and the stop
C25_Witness ==
    /\ Running("gpt")
    /\ pc = "stopped"
    /\ t_stop > 50
    /\ state["gpt/generator"].count = 17
    /\ state["gpt/generator"].sigma = INFINITY

\* the three atomics of the GPT model and of the EFP model under path root
GptRoles(root) ==
    [generator |-> root \o "gpt/generator",
     processor |-> root \o "gpt/processor",
     transducer |-> root \o "gpt/transducer"]

EfpRoles(root) ==
    [generator |-> root \o "efp/ef/generator",
     processor |-> root \o "efp/processor",
     transducer |-> root \o "efp/ef/transducer"]

\* what the atomics r emit in the current iteration: the times of their
\* lambdas and the messages on their output ports
Emissions(r) ==
    [requests |-> <<LambdaTimes(r.generator),
                    bag[<<r.generator, "out", "output_req">>]>>,
     results |-> <<LambdaTimes(r.processor),
                   bag[<<r.processor, "out", "output_res">>]>>,
     stop |-> <<LambdaTimes(r.transducer),
                bag[<<r.transducer, "out", "output_stop">>]>>]

\* the calls of the transition functions of atomic a in the current
\* iteration: function, time, elapsed time, whether a had input
Deltas(a) ==
    LET RECURSIVE from(_)
        from(i) ==
            IF i > Len(log) THEN <<>>
            ELSE IF log[i].node = a
                    /\ log[i].op \in {"delta_int", "delta_ext", "delta_conf"}
                 THEN << <<log[i].op, log[i].t, log[i].arg, log[i].inp>> >>
                      \o from(i + 1)
                 ELSE from(i + 1)
    IN from(1)

\* what the atomics r receive at the end of the collection of the current
\* iteration (the results of the processor reach the transducer of EFP in
\* the transition, through the EIC of the frame)
Receptions(r) ==
    [requests |-> bag[<<r.processor, "in", "input_req">>],
     observed |-> bag[<<r.transducer, "in", "input_req">>],
     stop |-> bag[<<r.generator, "in", "input_stop">>]]

\* the emissions of scenario S1 at time tt
S1Emissions(tt) ==
    [requests |-> IF tt \in GenTimes THEN <<{tt}, <<tt \div 3>> >>
                  ELSE <<{}, <<>> >>,
     results |-> IF tt \in ProcTimes
                 THEN <<{tt}, << <<(tt - 1) \div 3, 1>> >> >>
                 ELSE <<{}, <<>> >>,
     stop |-> IF tt = 50 THEN <<{tt}, <<TRUE>> >> ELSE <<{}, <<>> >>]

\* C26: the EFP model (the generator and the transducer nested in an
\* experimental frame wired to the processor) produces the same timed
\* sequence of generator emissions, processor completions and stop event as
\* the flat GPT model with the same parameters: simulated side by side, in
\* every iteration the two models emit the same messages at the same time,
\* run the same transition functions on their atomics with the same elapsed
\* time and presence of input, leave them in the same states and have the
\* same next time; simulated alone, EFP runs its iterations at the times of S1 and
\* emits what S1 emits
C26_EfpSameAsGpt ==
    /\ Running("both") =>
         /\ pc = "lambdas" =>
              /\ Emissions(EfpRoles("both/")) = Emissions(GptRoles("both/"))
              /\ Receptions(EfpRoles("both/")) = Receptions(GptRoles("both/"))
         /\ pc \in {"running", "stopped"} =>
              /\ \A role \in DOMAIN GptRoles("both/") :
                    /\ state[EfpRoles("both/")[role]] =
                          state[GptRoles("both/")[role]]
                    /\ Deltas(EfpRoles("both/")[role]) =
                          Deltas(GptRoles("both/")[role])
              /\ t_next["both/efp"] = t_next["both/gpt"]
              /\ t_last["both/efp"] = t_last["both/gpt"]
    /\ Running("efp") =>
         /\ pc = "running" /\ log[1].op = "start" => t_next_loc = 0
         /\ pc = "lambdas" =>
              /\ t_next_loc \in S1Times
              /\ Emissions(EfpRoles("")) = S1Emissions(t_next_loc)
         /\ \A tt \in S1Times : Transitioned(tt) => t_next_loc = S1After(tt)
         /\ pc = "stopped" => t_next_loc = INFINITY

\* both models, side by side, emit the stop event at time 50
C26_Witness ==
    /\ Running("both")
    /\ pc = "lambdas"
    /\ t_next_loc = 50
    /\ bag[<<"both/efp/ef/transducer", "out", "output_stop">>] = <<TRUE>>
    /\ bag[<<"both/gpt/transducer", "out", "output_stop">>] = <<TRUE>>
    /\ state["both/efp/ef/generator"].count = 17

----------------------------------------------------------------------------
(* The DEVStone models LI and HI of every width and depth up to the        *)
(* bounds, simulated until a stop time after 0.                            *)

Widths == 1..MaxWidth
Depths == 1..MaxDepth

DevstoneModels ==
    {LI_create(w, d) : w \in Widths, d \in Depths}
    \cup {HI_create(w, d) : w \in Widths, d \in Depths}

DevstoneStops == 1..MaxSlack \cup {INFINITY}

InitDevstone == InitModel(DevstoneModels, DevstoneStops)

SpecDevstone == InitDevstone /\ [][NextModel]_vars

\* the DEVStoneAtomic models of the model simulated
DevstoneAtomics == {a \in ModelAtomics : Sim_of(a).atomic = "DEVStoneAtomic"}

RECURSIVE SumOver(_, _)
\* the sum of field f of the states of the atomics in set as
SumOver(as, f) ==
    IF as = {} THEN 0
    ELSE LET a == CHOOSE x \in as : TRUE
         IN state[a][f] + SumOver(as \ {a}, f)

\* TestProbe: the totals that the atomics report when they stop
Probe ==
    [n_atomics |-> Cardinality(DevstoneAtomics),
     n_internals |-> SumOver(DevstoneAtomics, "n_internals"),
     n_externals |-> SumOver(DevstoneAtomics, "n_externals"),
     n_events |-> SumOver(DevstoneAtomics, "n_events")]

\* C27: in the LI model of any width >= 1 and depth >= 1, simulated to the
\* end, every DEVStone atomic has performed exactly one external and one
\* internal transition and received one event (never more at any point of
\* the run), and the totals of atomics, internal transitions, external
\* transitions and events are each (width - 1) * (depth - 1) + 1
C27_LiCounts ==
    \A w \in Widths, d \in Depths :
       builder = LI_create(w, d) /\ pc # "built" =>
          /\ \A a \in DevstoneAtomics :
                /\ state[a].n_internals <= 1
                /\ state[a].n_externals <= 1
                /\ state[a].n_events <= 1
                /\ pc = "stopped" =>
                      /\ state[a].n_internals = 1
                      /\ state[a].n_externals = 1
                      /\ state[a].n_events = 1
          /\ pc = "stopped" =>
                /\ Probe.n_atomics = (w - 1) * (d - 1) + 1
                /\ Probe.n_internals = (w - 1) * (d - 1) + 1
                /\ Probe.n_externals = (w - 1) * (d - 1) + 1
                /\ Probe.n_events = (w - 1) * (d - 1) + 1
                /\ t_next_loc = INFINITY

\* an LI model with more than one atomic per level and more than one level
\* has been simulated to the end
C27_Witness ==
    /\ builder = LI_create(MaxWidth, MaxDepth)
    /\ builder.last = "ok"
    /\ pc = "stopped"
    /\ Probe.n_atomics > MaxDepth
    /\ Probe.n_events = Probe.n_atomics

\* the number of transitions expected of a DEVStone atomic of the HI model:
\* i for atomic_i, 1 for inner_atomic
HiExpected(a) ==
    LET is == {i \in Widths : Sim_of(a).name = "atomic_" \o ToString(i)}
    IN IF is = {} THEN 1 ELSE CHOOSE i \in is : TRUE

\* C28: in the HI model of any width >= 1 and depth >= 1, simulated to the
\* end, the i-th atomic of each chain of internal couplings has performed i
\* internal and i external transitions and received i events (the inner
\* atomic one of each, and never more at any point of the run), so that the
\* totals of internal transitions, of external transitions and of events are
\* each (width - 1) * width / 2 * (depth - 1) + 1
C28_HiCounts ==
    \A w \in Widths, d \in Depths :
       builder = HI_create(w, d) /\ pc # "built" =>
          /\ \A a \in DevstoneAtomics :
                /\ state[a].n_internals <= HiExpected(a)
                /\ state[a].n_externals <= HiExpected(a)
                /\ state[a].n_events <= HiExpected(a)
                /\ pc = "stopped" =>
                      /\ state[a].n_internals = HiExpected(a)
                      /\ state[a].n_externals = HiExpected(a)
                      /\ state[a].n_events = HiExpected(a)
          /\ pc = "stopped" =>
                /\ Probe.n_atomics = (w - 1) * (d - 1) + 1
                /\ Probe.n_internals = (((w - 1) * w) \div 2) * (d - 1) + 1
                /\ Probe.n_externals = (((w - 1) * w) \div 2) * (d - 1) + 1
                /\ Probe.n_events = (((w - 1) * w) \div 2) * (d - 1) + 1
                /\ t_next_loc = INFINITY

\* an HI model with a chain of more than one atomic on more than one level
\* has been simulated to the end, the last atomic of a chain having made
\* more than one transition
C28_Witness ==
    /\ builder = HI_create(MaxWidth, MaxDepth)
    /\ builder.last = "ok"
    /\ pc = "stopped"
    /\ \E a \in DevstoneAtomics :
          /\ Sim_of(a).name = "atomic_" \o ToString(MaxWidth - 1)
          /\ state[a].n_internals = MaxWidth - 1
          /\ state[a].n_internals > 1
    /\ Probe.n_events > Probe.n_atomics

----------------------------------------------------------------------------
(* Order of the phases inside Coupled::collection and Coupled::transition  *)

\* the calls of collection on the components of coupled c and the couplings
\* that c applies, as (operation, node, index of the coupling), in the order
\* in which the calls l make them
CollectionOf(c, l) ==
    LET kids == {components(c)[i] : i \in 1..Len(components(c))}
        own == SelectSeq(l, LAMBDA e :
                  \/ e.op = "collection" /\ e.node \in kids
                  \/ e.op \in {"eoc", "ic"} /\ e.node = c)
    IN [k \in 1..Len(own) |->
           <<own[k].op, own[k].node,
             IF own[k].op = "collection" THEN 0 ELSE own[k].arg>>]

\* the components in insertion order, then the EOCs, then the ICs, each in
\* insertion order
CollectionOrder(c) ==
    [i \in 1..Len(components(c)) |-> <<"collection", components(c)[i], 0>>]
    \o [i \in 1..Len(eocs(c)) |-> <<"eoc", c, i>>]
    \o [i \in 1..Len(ics(c)) |-> <<"ic", c, i>>]

RECURSIVE Appended(_, _, _, _)
\* the bags b of the sources of the couplings coups whose destination is
\* port, from coupling i on, one after the other
Appended(b, coups, port, i) ==
    IF i > Len(coups) THEN <<>>
    ELSE (IF coups[i][1] = port THEN b[coups[i][2]] ELSE <<>>)
         \o Appended(b, coups, port, i + 1)

TransitionsOf(c, l) ==
    LET kids == {components(c)[i] : i \in 1..Len(components(c))}
        own == SelectSeq(l, LAMBDA e : e.op = "transition" /\ e.node \in kids)
    IN [k \in 1..Len(own) |-> own[k].node]

\* C30: Coupled::transition(t).  In every transition step and for every
\* call of transition on a coupled model c: when the input of c (what the
\* collection left there or an EIC of its parent has just put there) is not
\* empty the call applies the EICs of c, in insertion order, and clears the input
\* of c right after them, all before any transition of a component, and the
\* components at the destinations see input; when the input is empty no EIC
\* is applied; the transition of every component is called, in insertion
\* order, exactly when c had input or t >= t_next of c, and then t_last of c
\* is t; otherwise no call is made below c, and the clocks of c and the
\* clocks, states and bags below c stay as they are.
C30_CoupledTransition ==
    [][TransitionStep =>
         LET calls == NewCalls
         IN \A i \in 1..Len(calls) :
            LET e == calls[i]
                c == e.node
                n == Len(eics(c))
                is_external == e.inp
                is_internal == e.t >= e.arg
                below == {j \in 1..Len(calls) :
                             calls[j].node \in (Subtree[c] \ {c})}
            IN e.op = "transition" /\ c \in Coupleds =>
                 /\ bag[In(c)] # <<>> /\ in_ports(c) # <<>> => is_external
                 /\ is_external =>
                       \/ bag[In(c)] # <<>>
                       \/ \E j \in 1..(i - 1) :
                             /\ calls[j].op = "eic"
                             /\ eics(calls[j].node)[calls[j].arg][1] = In(c)
                 /\ is_external =>
                       /\ i + n + 1 <= Len(calls)
                       /\ \A k \in 1..n :
                             /\ calls[i + k].op = "eic"
                             /\ calls[i + k].node = c
                             /\ calls[i + k].arg = k
                             /\ \E j \in below :
                                   /\ calls[j].op = "transition"
                                   /\ calls[j].node = eics(c)[k][1][1]
                                   /\ calls[j].inp
                       /\ calls[i + n + 1].op = "clear_input"
                       /\ calls[i + n + 1].node = c
                       /\ \A j \in below : j > i + n + 1
                 /\ ~is_external =>
                       \A j \in 1..Len(calls) :
                          ~(calls[j].node = c
                            /\ calls[j].op \in {"eic", "clear_input"})
                 /\ bag'[In(c)] = <<>>
                 /\ is_external \/ is_internal =>
                       /\ TransitionsOf(c, calls) = components(c)
                       /\ t_last'[c] = e.t
                 /\ ~(is_external \/ is_internal) =>
                       /\ below = {}
                       /\ t_last'[c] = t_last[c]
                       /\ t_next'[c] = t_next[c]
                       /\ \A d \in (Subtree[c] \ {c}) :
                             /\ t_last'[d] = t_last[d]
                             /\ t_next'[d] = t_next[d]
                             /\ BagsOf(bag', d) = BagsOf(bag, d)
                             /\ d \in Atomics => state'[d] = state[d]
      ]_vars

\* a transition in which coupled c, before its own time, had input and
\* passed it to p through its EIC, while its component e, without input and
\* not at its time, was called and did nothing
C30_Witness ==
    /\ pc \in {"loop", "rt_loop"}
    /\ \E i \in 1..Len(log) :
          /\ log[i].op = "transition" /\ log[i].node = "c"
          /\ log[i].inp /\ log[i].t < log[i].arg
    /\ \E i \in 1..Len(log) : log[i].op = "eic" /\ log[i].node = "c"
    /\ \E i \in 1..Len(log) :
          log[i].op = "delta_ext" /\ log[i].node = "p" /\ log[i].inp
    /\ \E i \in 1..Len(log) :
          /\ log[i].op = "transition" /\ log[i].node = "e"
          /\ ~log[i].inp /\ log[i].t < log[i].arg

----------------------------------------------------------------------------
(* Clearing of the output ports                                            *)

\* C31: the output bags of a node are cleared during transition(t) exactly
\* when the node has an internal or confluent event at t (an atomic when
\* t = t_next, a coupled model when t >= t_next): in every transition step
\* and for every call of transition on a node, clear_output is called on the
\* node, once, exactly in that case, and the output bag of the node is then
\* empty; otherwise, in a purely external transition or one that does
\* nothing, clear_output is not called on the node and its output bag stays
\* as it was.
C31_OutputClearing ==
    [][TransitionStep =>
         LET calls == NewCalls
         IN \A i \in 1..Len(calls) :
               LET e == calls[i]
                   n == e.node
                   is_internal == IF n \in Atomics THEN e.t = e.arg
                                  ELSE e.t >= e.arg
                   cleared == CallsOf(calls, n, {"clear_output"})
               IN e.op = "transition" =>
                    /\ is_internal => Len(cleared) = 1 /\ bag'[Out(n)] = <<>>
                    /\ ~is_internal =>
                          cleared = <<>> /\ bag'[Out(n)] = bag[Out(n)]
      ]_vars

\* a transition in which p, before its time, made a purely external
\* transition on the output of g and kept its output ports, while g, at its
\* time, made an internal transition and had its output cleared
C31_Witness ==
    /\ pc \in {"loop", "rt_loop"}
    /\ \E i \in 1..Len(log) :
          /\ log[i].op = "transition" /\ log[i].node = "p"
          /\ log[i].inp /\ log[i].t < log[i].arg
    /\ \E i \in 1..Len(log) : log[i].op = "delta_ext" /\ log[i].node = "p"
    /\ CallsOf(log, "p", {"clear_output"}) = <<>>
    /\ \E i \in 1..Len(log) : log[i].op = "delta_int" /\ log[i].node = "g"
    /\ Len(CallsOf(log, "g", {"clear_output"})) = 1

----------------------------------------------------------------------------
(* Port<T>: the bag of values of a port (modeling/port.rs).  Two ports of  *)
(* the same type are created and their methods are called in any order;    *)
(* log holds the last call: the method, the port, the other port of        *)
(* propagate, and the values handed to the call or returned by it.         *)

PortObjs == {"port_a", "port_b"}
PortValues == {0, 1}

\* the slices handed to add_values
Batches == UNION {[1..k -> PortValues] : k \in 0..MaxBatch}

\* Port::add_value: self.values.borrow_mut().push(value)
Port_add_value(b, port, value) == [b EXCEPT ![port] = Append(@, value)]

\* Port::add_values: self.values.borrow_mut().extend(values)
Port_add_values(b, port, values) == [b EXCEPT ![port] = @ \o values]

\* Port::get_values: self.values.borrow()
Port_get_values(b, port) == b[port]

\* Port::clear: self.values.borrow_mut().clear()
Port_clear(b, port) == [b EXCEPT ![port] = <<>>]

\* Port_propagate that replaces the values of the port by those of port_from
Port_propagate_replacing(b, port, port_from) ==
    [b EXCEPT ![port] = b[port_from]]

\* Port::propagate: self.values.borrow_mut().extend(&*port_from.values.borrow())
Port_propagate(b, port, port_from) == [b EXCEPT ![port] = @ \o b[port_from]]

PortCall(op, port, other, values) ==
    [op |-> op, node |-> port, other |-> other, values |-> values]

InitPort ==
    /\ mode = "unit"
    /\ pc = "ports"
    /\ t_stop = INFINITY
    /\ t = 0
    /\ t_next_loc = 0
    /\ t_last = [n \in Nodes |-> 0]
    /\ t_next = [n \in Nodes |-> INFINITY]
    /\ state = [a \in Atomics |-> Passive]
    /\ bag = [p \in PortObjs |-> <<>>]
    /\ log = <<>>
    /\ par = {}
    /\ behaviour = AnyBehaviour
    /\ hasher = PortList
    /\ par_eics = NoVectors
    /\ par_xxcs = NoVectors
    /\ waiter = NewWaiter(None)
    /\ builder = NewCoupled

\* everything but the bags, the last call and the position of the program
PortFrame == <<fixed, mode, t_stop, t, t_next_loc, t_last, t_next, state>>

PortAddValue ==
    /\ pc = "ports"
    /\ \E port \in PortObjs, value \in PortValues :
          /\ Len(bag[port]) < MaxBag
          /\ bag' = Port_add_value(bag, port, value)
          /\ log' = <<PortCall("add_value", port, port, <<value>>)>>
    /\ UNCHANGED <<PortFrame, pc>>

PortAddValues ==
    /\ pc = "ports"
    /\ \E port \in PortObjs, values \in Batches :
          /\ Len(bag[port]) + Len(values) <= MaxBag
          /\ bag' = Port_add_values(bag, port, values)
          /\ log' = <<PortCall("add_values", port, port, values)>>
    /\ UNCHANGED <<PortFrame, pc>>

PortGetValues ==
    /\ pc = "ports"
    /\ \E port \in PortObjs :
          log' = <<PortCall("get_values", port, port,
                            Port_get_values(bag, port))>>
    /\ UNCHANGED <<PortFrame, pc, bag>>

PortClear ==
    /\ pc = "ports"
    /\ \E port \in PortObjs :
          /\ bag' = Port_clear(bag, port)
          /\ log' = <<PortCall("clear", port, port, <<>>)>>
    /\ UNCHANGED <<PortFrame, pc>>

\* port.propagate(port_from) on two ports
PortPropagate ==
    /\ pc = "ports"
    /\ \E port \in PortObjs :
       \E port_from \in PortObjs \ {port} :
          /\ Len(bag[port]) + Len(bag[port_from]) <= MaxBag
          /\ bag' = Port_propagate(bag, port, port_from)
          /\ log' = <<PortCall("propagate", port, port_from, <<>>)>>
    /\ UNCHANGED <<PortFrame, pc>>

\* port.propagate(port) panics: the RefCell of the values is borrowed
\* mutably and then borrowed again
PortPropagateSelf ==
    /\ pc = "ports"
    /\ \E port \in PortObjs :
          log' = <<PortCall("propagate", port, port, <<>>)>>
    /\ pc' = "panicked"
    /\ UNCHANGED <<PortFrame, bag>>

NextPort ==
    \/ PortAddValue \/ PortAddValues \/ PortGetValues \/ PortClear
    \/ PortPropagate \/ PortPropagateSelf

SpecPort == InitPort /\ [][NextPort]_vars

\* sequence q starts with sequence prefix
StartsWith(q, prefix) ==
    /\ Len(prefix) <= Len(q)
    /\ \A i \in 1..Len(prefix) : q[i] = prefix[i]

\* sequence q ends with sequence suffix
EndsWith(q, suffix) ==
    /\ Len(suffix) <= Len(q)
    /\ \A i \in 1..Len(suffix) : q[Len(q) - Len(suffix) + i] = suffix[i]

\* C32: the operations on the bag of a port.  In every call: add_value and
\* add_values put their values at the end of the bag of the port, in the
\* order given, after the values that were there; get_values returns the
\* values of the port in the order of the bag and changes nothing; clear
\* empties the bag of the port; propagate, from another port, puts the values
\* of the source, in order, after the values of the destination and leaves
\* the bag of the source as it was; and no call changes the bag of a port
\* other than the one it is called on, so that later changes of the source
\* do not reach the destination.
C32_BagOperations ==
    [][pc = "ports" /\ pc' = "ports" /\ mode = "unit" /\ log' # <<>>
       /\ DOMAIN bag = PortObjs =>
         LET call == log'[1]
             port == call.node
             old == bag[port]
             new == bag'[port]
         IN /\ \A other \in PortObjs \ {port} : bag'[other] = bag[other]
            /\ call.op \in {"add_value", "add_values"} =>
                  /\ Len(new) = Len(old) + Len(call.values)
                  /\ StartsWith(new, old)
                  /\ EndsWith(new, call.values)
            /\ call.op = "get_values" => call.values = old /\ new = old
            /\ call.op = "clear" => new = <<>>
            /\ call.op = "propagate" =>
                  /\ Len(new) = Len(old) + Len(bag[call.other])
                  /\ StartsWith(new, old)
                  /\ EndsWith(new, bag[call.other])
                  /\ bag'[call.other] = bag[call.other]
      ]_vars

\* port_a, which held a value already, has received the two values of
\* port_b by propagate: it holds its own value followed by those of port_b,
\* which still holds them
C32_Witness ==
    /\ mode = "unit" /\ pc = "ports"
    /\ DOMAIN bag = PortObjs
    /\ log # <<>>
    /\ log[1].op = "propagate"
    /\ log[1].node = "port_a" /\ log[1].other = "port_b"
    /\ bag["port_a"] = <<0, 1, 0>>
    /\ bag["port_b"] = <<1, 0>>

----------------------------------------------------------------------------
(* Accesses to the bags of the ports by the calls of a phase               *)

\* the elements of a sequence of ports
PortSet(q) == {q[i] : i \in 1..Len(q)}

\* the couplings that call e applies: e.arg is the index of the coupling in
\* the vector of its kind
CouplingOf(e) ==
    CASE e.op = "eic" -> eics(e.node)[e.arg]
      [] e.op = "ic"  -> ics(e.node)[e.arg]
      [] e.op = "eoc" -> eocs(e.node)[e.arg]

\* the bags that call e writes: lambda the output ports of its atomic, a
\* coupling its destination, clear_input and clear_output the ports cleared
Writes(e) ==
    CASE e.op \in {"lambda", "clear_output"} -> PortSet(out_ports(e.node))
      [] e.op = "clear_input" -> PortSet(in_ports(e.node))
      [] e.op \in {"eic", "ic", "eoc"} -> {CouplingOf(e)[1]}
      [] OTHER -> {}

\* the bags that call e reads: a coupling its source, transition and the
\* external and confluent transition functions the input ports of the node
Reads(e) ==
    CASE e.op \in {"transition", "delta_ext", "delta_conf"} ->
            PortSet(in_ports(e.node))
      [] e.op \in {"eic", "ic", "eoc"} -> {CouplingOf(e)[2]}
      [] OTHER -> {}

\* the node of the tree rooted at k, a component of coupled c, that call e
\* is made on, if any
Within == [k \in Nodes |-> [n \in Nodes |-> n \in Subtree[k]]]

\* the bags written (read) by the calls l made in the subtree of k
WrittenBy(l, k) ==
    UNION {Writes(l[i]) : i \in {j \in 1..Len(l) : Within[k][l[j].node]}}

ReadBy(l, k) ==
    UNION {Reads(l[i]) : i \in {j \in 1..Len(l) : Within[k][l[j].node]}}

\* the components of the coupled models, in pairs of distinct siblings
Siblings ==
    UNION {{<<k1, k2>> : k1, k2 \in PortSet(components(c))} : c \in Coupleds}
       \ {<<k, k>> : k \in Nodes}

\* the ports of the nodes of the subtree of k
PortsWithin == [k \in Nodes |-> Subtree[k] \X {"in", "out"}]

\* the step runs one phase of the simulation on the root
PhaseStep == StartStep \/ StopStep \/ CollectionStep \/ TransitionStep

----------------------------------------------------------------------------
(* Groups of couplings routed in parallel                                  *)

\* the destinations (k = 1) or sources (k = 2) of the couplings of a group
EndsOf(group, k) == {group[2][i][k] : i \in 1..Len(group[2])}

\* the couplings of a group, with their kind
MembersOf(group) == {<<group[1], group[2][i]>> : i \in 1..Len(group[2])}

\* the couplings of the vectors eocs and ics (or eics) of c, with their kind
KindCouplings(kind, coups) == {<<kind, coups[i]>> : i \in 1..Len(coups)}

\* simulations with the parallel routing of the couplings alone compiled in
InitCouplings ==
    /\ mode \in {"vt", "rt"}
    /\ pc = "new"
    /\ t_stop = ParStop
    /\ t = 0
    /\ t_next_loc = 0
    /\ t_last = [n \in Nodes |-> 0]
    /\ t_next = [n \in Nodes |-> INFINITY]
    /\ state = [a \in Atomics |-> Passive]
    /\ bag = [p \in Ports |-> <<>>]
    /\ log = <<>>
    /\ par = {"par_couplings"}
    /\ behaviour = AnyBehaviour
    /\ hasher \in HashOrders
    /\ par_eics = NoVectors
    /\ par_xxcs = NoVectors
    /\ waiter = NewWaiter(None)
    /\ builder = NewCoupled

SpecCouplings == InitCouplings /\ [][Next]_vars

\* groups is a grouping of the couplings all by destination: every coupling
\* is in one group, once; a group holds couplings of one destination; two
\* groups have different destinations, and the destination of one is not a
\* source of the other
GroupedByDestination(groups, all) ==
    /\ UNION {MembersOf(groups[g]) : g \in 1..Len(groups)} = all
    /\ \A g \in 1..Len(groups) :
          /\ Cardinality(EndsOf(groups[g], 1)) = 1
          /\ Cardinality(MembersOf(groups[g])) = Len(groups[g][2])
    /\ \A g1, g2 \in 1..Len(groups) :
          g1 # g2 =>
             /\ MembersOf(groups[g1]) \cap MembersOf(groups[g2]) = {}
             /\ EndsOf(groups[g1], 1) \cap EndsOf(groups[g2], 1) = {}
             /\ EndsOf(groups[g1], 1) \cap EndsOf(groups[g2], 2) = {}

\* the calls <<op, arg>> that apply the couplings of the groups, each group
\* as a whole and from its first coupling to its last
RECURSIVE GroupCalls(_, _)
GroupCalls(groups, g) ==
    IF g > Len(groups) THEN <<>>
    ELSE [i \in 1..Len(groups[g][2]) |-> <<groups[g][1], i>>]
            \o GroupCalls(groups, g + 1)

\* the routing calls <<op, arg>> of kinds made on coupled c, in order
RoutingOf(l, c, kinds) ==
    LET sel == CallsOf(l, c, kinds)
    IN [i \in 1..Len(sel) |-> <<sel[i].op, sel[i].arg>>]

\* the messages of the sources of a group in bags b, from coupling i on
RECURSIVE Gathered(_, _, _)
Gathered(b, group, i) ==
    IF i > Len(group[2]) THEN <<>>
    ELSE b[group[2][i][2]] \o Gathered(b, group, i + 1)

----------------------------------------------------------------------------
(* Iterations of simulate_rt                                               *)

\* the operations in ops called by the sequence of calls l, in order
OpsOf(l, ops) ==
    LET sel == SelectSeq(l, LAMBDA e : e.op \in ops)
    IN [i \in 1..Len(sel) |-> sel[i].op]

\* C35: in simulate_rt, after the waiter has returned t, the driver calls
\* collection(t) on the root, followed by one call of the output handler,
\* exactly when t is at or after the next internal event time; the
\* transition(t) on the root follows.  When t is before that time and the
\* input of the root is not empty, the only call on the root is
\* transition(t): there is no collection, no call of the output handler, no
\* lambda and no internal or confluent transition function, so the step is
\* external only; when the input is empty nothing is called.
C35_RtIteration ==
    [][mode = "rt" /\ pc \in {"rt_waited", "rt_collected"} =>
         \A calls \in {NewCalls} :
            IF pc = "rt_collected"
            THEN /\ pc' = "rt_loop"
                 /\ OnlyRootCall("transition", t)
                 /\ OpsOf(calls, {"collection", "lambda", "output_handler"}) = <<>>
            ELSE IF t >= t_next_loc
            THEN /\ pc' = "rt_collected"
                 /\ OnlyRootCall("collection", t)
                 /\ OpsOf(calls, {"output_handler", "transition"})
                       = <<"output_handler">>
                 /\ calls[Len(calls)].op = "output_handler"
                 /\ calls[Len(calls)].t = t
            ELSE /\ pc' = "rt_loop"
                 /\ OpsOf(calls, {"collection", "lambda", "output_handler",
                                  "delta_int", "delta_conf"}) = <<>>
                 /\ IF is_input_empty(Cur, Root)
                    THEN calls = <<>> /\ UNCHANGED <<bag, state, t_next_loc>>
                    ELSE /\ OnlyRootCall("transition", t)
                         /\ bag'[In(Root)] = <<>>
      ]_vars

\* an iteration of simulate_rt is over in which the waiter has injected
\* input and returned a time before the one asked for, and the model has
\* made an external transition without any lambda
C35_Witness ==
    /\ mode = "rt" /\ pc = "rt_loop"
    /\ Len(log) > 1
    /\ log[1].op = "wait_event" /\ log[1].inp /\ log[1].t < log[1].arg
    /\ log[2].op = "transition" /\ log[2].node = Root /\ log[2].t = log[1].t
    /\ \E i \in 1..Len(log) : log[i].op = "delta_ext"
    /\ \A i \in 1..Len(log) : log[i].op \notin {"lambda", "collection"}

----------------------------------------------------------------------------
(* Repeated simulations on one root coordinator, with par_couplings        *)

\* the number of calls of start that have built the vectors of the root
Starts == Len(par_eics[Root]) \div Len(build_par_eics(Root, hasher))

\* simulate(&mut self, ..) or simulate_rt(&mut self, ..) has returned and
\* is called again on the same root coordinator: the model is as the
\* simulation before left it.  Vectors of one destination that two calls
\* of start have pushed are applied one after the other, as in the runs in
\* which they do not overlap in time.
SimulateAgain ==
    /\ pc = "done"
    /\ Starts < MaxRuns
    /\ pc' = "new"
    /\ UNCHANGED <<fixed, mode, t_stop, t, t_next_loc, t_last, t_next, state,
                   bag, log>>

NextRestart == Next \/ SimulateAgain

SpecRestart == InitCouplings /\ [][NextRestart]_vars

\* the couplings of coupled c that collection applies, and their
\* destinations
CollectionCouplings(c) == eocs(c) \o ics(c)

\* the number of messages in bags b at the sources of the couplings of
\* coups, from coupling i on, whose destination is dst
RECURSIVE Delivered(_, _, _, _)
Delivered(b, coups, dst, i) ==
    IF i > Len(coups) THEN 0
    ELSE (IF coups[i][1] = dst THEN Len(b[coups[i][2]]) ELSE 0)
            + Delivered(b, coups, dst, i + 1)

\* C36: with par_couplings, however many times start has been called on a
\* coupled model, a coupled that routes applies each of its couplings once:
\* as many EIC calls as it has EICs in a transition, as many EOC and IC calls
\* as it has EOCs and ICs in a collection, and after the collection every
\* destination holds, on top of what it held, one copy of the messages of
\* each of its sources.
C36_OncePerPass ==
    [][CollectionStep \/ TransitionStep =>
         \A calls \in {StepCalls} :
         \A c \in Coupleds :
            /\ Len(RoutingOf(calls, c, {"eic"})) \in {0, Len(eics(c))}
            /\ Len(RoutingOf(calls, c, {"eoc", "ic"}))
                  \in {0, Len(CollectionCouplings(c))}
            /\ CollectionStep /\ RoutingOf(calls, c, {"eoc", "ic"}) # <<>> =>
                  \A i \in 1..Len(CollectionCouplings(c)) :
                     LET dst == CollectionCouplings(c)[i][1]
                     IN Len(bag'[dst]) =
                           Len(bag[dst])
                              + Delivered(bag', CollectionCouplings(c), dst, 1)
      ]_vars

----------------------------------------------------------------------------
(* The keys of the maps of couplings                                       *)

\* the two ports that the last call names exist and carry the same type
Couplable(b, call) ==
    /\ Named(b, call[2]) # {}
    /\ Named(b, call[3]) # {}
    /\ \A p \in Named(b, call[2]), q \in Named(b, call[3]) : is_compatible(p, q)

\* C37: add_eic, add_ic and add_eoc refuse a coupling as a duplicate only
\* when the model holds a coupling of the same source port and the same
\* destination port: a call that names two existing ports of one type whose
\* pair the model does not hold is accepted and adds the pair, whatever the
\* names of the components and ports, names with '-' included.
C37_OnlyTrueDuplicates ==
    [][LET kind == builder'.call[1]
           pair == <<builder'.call[3], builder'.call[2]>>
       IN /\ builder'.last = "coupling already exists" =>
                pair \in Held(builder, kind)
          /\ Couplable(builder, builder'.call) /\ pair \notin Held(builder, kind) =>
                /\ builder'.last = "ok"
                /\ Held(builder', kind) = Held(builder, kind) \cup {pair}
      ]_vars

----------------------------------------------------------------------------
(* simulate_rt with a waiter that is always on time, against simulate      *)

\* the waiter has returned the time it was asked for and no input has come
ExactWait ==
    /\ log[1].op = "wait_event"
    /\ log[1].t = log[1].arg
    /\ ~log[1].inp
    /\ is_input_empty(Cur, Root)

\* C38: simulate_rt with a waiter that returns the requested time and no
\* input makes the calls simulate makes on a model in the same state: a
\* collection at the root t_next followed by a transition at that time when
\* the root t_next is below t_stop, and neither of them otherwise, an event
\* of the root at t_stop itself included.
C38_SameAsSimulate ==
    [][mode = "rt" /\ pc \in {"rt_waited", "rt_collected"} /\ ExactWait =>
         IF pc = "rt_collected"
         THEN pc' = "rt_loop" /\ OnlyRootCall("transition", t_next_loc)
         ELSE IF t_next_loc < t_stop
         THEN pc' = "rt_collected" /\ OnlyRootCall("collection", t_next_loc)
         ELSE pc' = "rt_loop" /\ NewCalls = <<>>
      ]_vars

----------------------------------------------------------------------------
(* The two clocks of rt::wait_event                                        *)

\* the closure has returned after a wake-up at or after the instant
\* scheduled for the requested time
LateWakeup ==
    /\ waiter.status = "returned"
    /\ waiter.next_rt # None /\ waiter.now >= waiter.next_rt

\* the closure has returned after a wake-up before the scheduled instant,
\* or without one (infinite requested time)
EarlyWakeup ==
    /\ waiter.status = "returned"
    /\ waiter.next_rt = None \/ waiter.now < waiter.next_rt

\* after a late wake-up last_rt is the scheduled instant and last_vt the
\* requested time; after an early one last_rt is the instant of the wake-up
\* and last_vt the virtual time of that instant
Reanchored ==
    /\ LateWakeup =>
          waiter.last_rt = waiter.next_rt /\ waiter.last_vt = waiter.next_vt
    /\ EarlyWakeup =>
          /\ waiter.last_rt = waiter.now
          /\ waiter.last_vt = as_secs_f64(waiter.now)

\* C39: after every call of the closure the wall-clock time elapsed since
\* start_rt (which is 0) is last_vt * time_scale, that is, last_vt is the
\* virtual time of last_rt; a late wake-up leaves last_rt at the scheduled
\* instant and an early wake-up sets both clocks from the instant of the
\* wake-up.
C39_Anchored ==
    /\ waiter.status = "returned" => waiter.last_vt = as_secs_f64(waiter.last_rt)
    /\ Reanchored

----------------------------------------------------------------------------
(* The description of a tree of models (xdevs_utils dmt): DevsModel with    *)
(* add_input, add_output, add_component and add_coupling.  An Option is    *)
(* <<>> (None) or <<v>> (Some(v)); the HashMap of components is the set of  *)
(* its values, one per name; the HashMap<Node, HashSet<Node>> of couplings  *)
(* is the set of its pairs <<source, destination>>.                         *)

\* DevsModel::new
DevsModel_new(name) ==
    [name |-> name, input |-> {}, output |-> {}, components |-> <<>>]

\* Components::new
Components_new == [components |-> {}, couplings |-> {}]

\* DevsModel::add_input, DevsModel::add_output
add_input(m, input) == [m EXCEPT !.input = @ \cup {input}]

add_output(m, output) == [m EXCEPT !.output = @ \cup {output}]

\* DevsModel::has_input, DevsModel::has_output
has_input(m, input) == input \in m.input

has_output(m, output) == output \in m.output

\* DevsModel::add_component with Components::add_component: insert replaces
\* the component of the same name
DevsModel_add_component(m, component) ==
    LET cs == IF m.components = <<>> THEN Components_new ELSE m.components[1]
    IN [m EXCEPT !.components =
          <<[cs EXCEPT !.components =
                {c \in @ : c.name # component.name} \cup {component}]>>]

\* DevsModel::get_component
DevsModel_get_component(m, name) ==
    IF m.components = <<>> THEN <<>>
    ELSE LET found == {c \in m.components[1].components : c.name = name}
         IN IF found = {} THEN <<>> ELSE <<CHOOSE c \in found : TRUE>>

\* Coupling::eic, Coupling::ic, Coupling::eoc
Coupling_eic(port_from, component_to, port_to) ==
    [src |-> [component |-> <<>>, port |-> port_from],
     dst |-> [component |-> <<component_to>>, port |-> port_to]]

Coupling_ic(component_from, port_from, component_to, port_to) ==
    [src |-> [component |-> <<component_from>>, port |-> port_from],
     dst |-> [component |-> <<component_to>>, port |-> port_to]]

Coupling_eoc(component_from, port_from, port_to) ==
    [src |-> [component |-> <<component_from>>, port |-> port_from],
     dst |-> [component |-> <<>>, port |-> port_to]]

\* Coupling::get_type
get_type(coupling) ==
    IF coupling.src.component = <<>> /\ coupling.dst.component # <<>> THEN "EIC"
    ELSE IF coupling.src.component # <<>> /\ coupling.dst.component # <<>>
    THEN "IC"
    ELSE IF coupling.src.component # <<>> /\ coupling.dst.component = <<>>
    THEN "EOC"
    ELSE "Invalid"

\* .couplings.entry(coupling.src).or_default().insert(coupling.dst); Ok(res)
insert_dmt(m, coupling) ==
    LET pair == <<coupling.src, coupling.dst>>
    IN [model |-> [m EXCEPT !.components[1].couplings = @ \cup {pair}],
        res |-> <<"Ok", pair \notin m.components[1].couplings>>]

\* the result Err(e) of add_coupling, the model left as it is
Err(m, e) == [model |-> m, res |-> <<"Err", e>>]

\* DevsModel::add_coupling
DevsModel_add_coupling(m, coupling) ==
    IF m.components = <<>> THEN Err(m, "NoComponents")
    ELSE CASE get_type(coupling) = "EIC" ->
                IF ~has_input(m, coupling.src.port) THEN Err(m, "InvalidPort")
                ELSE LET component ==
                            DevsModel_get_component(m, coupling.dst.component[1])
                     IN IF component = <<>> THEN Err(m, "InvalidComponent")
                        ELSE IF has_input(component[1], coupling.dst.port)
                        THEN insert_dmt(m, coupling)
                        ELSE Err(m, "InvalidPort")
           [] get_type(coupling) = "IC" ->
                LET src == DevsModel_get_component(m, coupling.src.component[1])
                    dst == DevsModel_get_component(m, coupling.dst.component[1])
                IN IF src = <<>> \/ dst = <<>> THEN Err(m, "InvalidComponent")
                   ELSE IF has_output(src[1], coupling.src.port)
                           /\ has_input(dst[1], coupling.dst.port)
                   THEN insert_dmt(m, coupling)
                   ELSE Err(m, "InvalidPort")
           [] get_type(coupling) = "EOC" ->
                LET component ==
                       DevsModel_get_component(m, coupling.src.component[1])
                IN IF component = <<>> THEN Err(m, "InvalidComponent")
                   ELSE IF has_output(component[1], coupling.src.port)
                   THEN insert_dmt(m, coupling)
                   ELSE Err(m, "InvalidPort")
           [] OTHER -> Err(m, "InvalidComponent")

\* the names of ports and components that the calls use; no component "q"
\* is ever added
DmtPorts == {"x", "y"}
DmtNames == {"p", "q"}

\* the component handed to add_component: input "x", output "y"
DmtComponent == add_output(add_input(DevsModel_new("p"), "x"), "y")

\* the couplings handed to add_coupling
DmtCouplings ==
    {Coupling_eic(pf, ct, pt) : pf \in DmtPorts, ct \in DmtNames, pt \in DmtPorts}
    \cup {Coupling_ic(cf, pf, ct, pt) :
             cf \in DmtNames, pf \in DmtPorts, ct \in DmtNames, pt \in DmtPorts}
    \cup {Coupling_eoc(cf, pf, pt) :
             cf \in DmtNames, pf \in DmtPorts, pt \in DmtPorts}

\* let mut efp = DevsModel::new("efp"); the model under description is held
\* in builder, the last call and its result in log
InitDmt ==
    /\ mode = "unit"
    /\ pc = "dmt"
    /\ t_stop = INFINITY
    /\ t = 0
    /\ t_next_loc = 0
    /\ t_last = [n \in Nodes |-> 0]
    /\ t_next = [n \in Nodes |-> INFINITY]
    /\ state = [a \in Atomics |-> Passive]
    /\ bag = [p \in Ports |-> <<>>]
    /\ log = <<>>
    /\ par = {}
    /\ behaviour = AnyBehaviour
    /\ hasher = PortList
    /\ par_eics = NoVectors
    /\ par_xxcs = NoVectors
    /\ waiter = NewWaiter(None)
    /\ builder = DevsModel_new("efp")

DmtCall(op, arg, res) == <<[op |-> op, arg |-> arg, res |-> res]>>

DmtAddInput ==
    /\ pc = "dmt"
    /\ \E input \in DmtPorts :
         /\ builder' = add_input(builder, input)
         /\ log' = DmtCall("add_input", input, input \notin builder.input)
    /\ UNCHANGED <<mode, pc, t_stop, t, t_next_loc, t_last, t_next, state, bag,
                   par, behaviour, hasher, waiter, par_eics, par_xxcs>>

DmtAddOutput ==
    /\ pc = "dmt"
    /\ \E output \in DmtPorts :
         /\ builder' = add_output(builder, output)
         /\ log' = DmtCall("add_output", output, output \notin builder.output)
    /\ UNCHANGED <<mode, pc, t_stop, t, t_next_loc, t_last, t_next, state, bag,
                   par, behaviour, hasher, waiter, par_eics, par_xxcs>>

DmtAddComponent ==
    /\ pc = "dmt"
    /\ builder' = DevsModel_add_component(builder, DmtComponent)
    /\ log' = DmtCall("add_component", DmtComponent.name,
                      DevsModel_get_component(builder, DmtComponent.name))
    /\ UNCHANGED <<mode, pc, t_stop, t, t_next_loc, t_last, t_next, state, bag,
                   par, behaviour, hasher, waiter, par_eics, par_xxcs>>

\* one call of add_coupling, while the map holds fewer than MaxCouplings
\* couplings
DmtAddCoupling ==
    /\ pc = "dmt"
    /\ builder.components # <<>> =>
          Cardinality(builder.components[1].couplings) < MaxCouplings
    /\ \E coupling \in DmtCouplings :
         LET r == DevsModel_add_coupling(builder, coupling)
         IN /\ builder' = r.model
            /\ log' = DmtCall("add_coupling", coupling, r.res)
    /\ UNCHANGED <<mode, pc, t_stop, t, t_next_loc, t_last, t_next, state, bag,
                   par, behaviour, hasher, waiter, par_eics, par_xxcs>>

NextDmt == DmtAddInput \/ DmtAddOutput \/ DmtAddComponent \/ DmtAddCoupling

SpecDmt == InitDmt /\ [][NextDmt]_vars

\* the component that a node of a coupling names, if model m holds it
NodeComponent(m, node) ==
    IF node.component = <<>> THEN <<>>
    ELSE DevsModel_get_component(m, node.component[1])

\* both endpoints of the coupling exist in model m
EndpointsExist(m, coupling) ==
    LET src == NodeComponent(m, coupling.src)
        dst == NodeComponent(m, coupling.dst)
    IN CASE get_type(coupling) = "EIC" ->
               /\ coupling.src.port \in m.input
               /\ dst # <<>> /\ coupling.dst.port \in dst[1].input
         [] get_type(coupling) = "IC" ->
               /\ src # <<>> /\ coupling.src.port \in src[1].output
               /\ dst # <<>> /\ coupling.dst.port \in dst[1].input
         [] get_type(coupling) = "EOC" ->
               /\ src # <<>> /\ coupling.src.port \in src[1].output
               /\ coupling.dst.port \in m.output
         [] OTHER -> FALSE

\* C40: add_coupling returns Ok exactly when both endpoints of the coupling
\* exist: for an EIC the source among the inputs of the model and the
\* destination among the inputs of the named component, for an IC the
\* source among the outputs and the destination among the inputs of named
\* components, for an EOC the source among the outputs of the named
\* component and the destination among the outputs of the model itself;
\* otherwise it returns an error, InvalidPort or InvalidComponent
\* (NoComponents while the model has no component), and the model with its
\* map of couplings is as before.
C40_EndpointsChecked ==
    [][pc = "dmt" /\ log'[1].op = "add_coupling" =>
         LET coupling == log'[1].arg
             res == log'[1].res
         IN /\ res[1] = "Ok" <=> EndpointsExist(builder, coupling)
            /\ res[1] = "Err" =>
                  /\ builder' = builder
                  /\ IF builder.components = <<>> THEN res[2] = "NoComponents"
                     ELSE res[2] \in {"InvalidPort", "InvalidComponent"}
      ]_vars

====
